---- MODULE Spec2Model ----
(***************************************************************************)
(* Fulfillment orchestration of the guest-experience plugin:               *)
(*   - UpsellService (catalog cache, createUpsellOrder, provider dispatch, *)
(*     updateOrderStatus),                                                 *)
(*   - the retry interceptor of the three provider clients,                *)
(*   - the provider webhook routes.                                        *)
(* Three specifications share the variables: Spec (order orchestrator),    *)
(* SpecRetry (one outbound call through a client's response interceptor),  *)
(* SpecWebhook (the webhook endpoints).                                    *)
(***************************************************************************)
EXTENDS Integers, Sequences, FiniteSets, TLC

None == "none"
\* absent values of each shape
NoCatalog == <<>>
NoItem == [id |-> None]
NoOrder == [id |-> None]
NoDto == [items |-> <<>>]
\* an optional Date field that is not set
NoTime == 0 - 1

\* ---- bounds ------------------------------------------------------------
\* lines per order request
MaxLines == 2
\* catalog builds (cache epochs) in one behaviour
MaxBuilds == 2
\* clock value up to which updateOrderStatus is called from outside
MaxClock == 4

\* ---- program constants ---------------------------------------------------
\* one createUpsellOrder call at a time; the call index is the order's uuid
Calls == {1}
Properties == {"p1"}
Guests == {"g1"}

\* UpsellOrderStatus
PENDING == "pending"
CONFIRMED == "confirmed"
IN_PROGRESS == "in_progress"
COMPLETED == "completed"
CANCELLED == "cancelled"
REFUNDED == "refunded"

\* The statically defined catalog of getUpsellCatalog; price in currency units.
\* provider is metadata.provider (None when the item has no metadata).
StaticCatalog ==
  << [name |-> "Uber Ride",                      price |-> 0,   available |-> TRUE, provider |-> "uber"],
     [name |-> "DoorDash Food Delivery",         price |-> 0,   available |-> TRUE, provider |-> "doordash"],
     [name |-> "Instacart Grocery Delivery",     price |-> 0,   available |-> TRUE, provider |-> "instacart"],
     [name |-> "Early Check-in (11 AM)",         price |-> 50,  available |-> TRUE, provider |-> None],
     [name |-> "Late Checkout (2 PM)",           price |-> 50,  available |-> TRUE, provider |-> None],
     [name |-> "Mid-Stay Cleaning",              price |-> 75,  available |-> TRUE, provider |-> None],
     [name |-> "City Tour Package",              price |-> 120, available |-> TRUE, provider |-> None],
     [name |-> "Wine Tasting Tour",              price |-> 150, available |-> TRUE, provider |-> None],
     [name |-> "Premium Restaurant Reservation", price |-> 25,  available |-> TRUE, provider |-> None] >>

\* Every build draws fresh uuidv4() ids: the id of item i of build e is <<e, i>>.
BuildCatalog(epoch) ==
  [i \in DOMAIN StaticCatalog |->
     [id |-> <<epoch, i>>,
      name |-> StaticCatalog[i].name,
      price |-> StaticCatalog[i].price,
      available |-> StaticCatalog[i].available,
      provider |-> StaticCatalog[i].provider]]

\* ---- request inputs ------------------------------------------------------
\* catalog positions a guest asks for (ride, food, grocery, early check-in);
\* <<0, 0>> is an id no catalog ever contained
RequestIdx == {1, 2, 3, 4}
\* positions "subject to availability" that the back office delists
DelistIdx == {4}
UnknownId == <<0, 0>>
UpsellIds == {<<e, i>> : e \in 1..MaxBuilds, i \in RequestIdx} \cup {UnknownId}
Quantities == {1, 2}
\* item.metadata: complete = the fields the provider dispatch requires are
\* present; price = a price field the caller put into the metadata (0: none)
Metadatas == { [complete |-> FALSE, price |-> 7],
               [complete |-> TRUE,  price |-> 0] }
DtoLine == [upsellId : UpsellIds, quantity : Quantities, metadata : Metadatas]
DtoItems == UNION { [1..n -> DtoLine] : n \in 0..MaxLines }

VARIABLES
  catalogCache,   \* redis upsell:catalog:<propertyId> -> catalog | None
  builds,         \* number of catalogs built so far (freshness of uuidv4)
  orderCache,     \* redis upsell:order:<id> -> order | None
  now,            \* logical clock read by new Date()
  pc,             \* position of each createUpsellOrder call
  dto,            \* its request: [items, guestId, propertyId]
  cat,            \* the catalog it resolved
  local,          \* the order object it holds (and returns)
  line,           \* index of the line being dispatched
  quote,          \* DoorDash quote / Instacart estimate obtained for the line
  upd,            \* pending updateOrderStatus: args and the record read
  err,            \* error thrown by the call
  sent,           \* provider requests issued by the call, in order
  rq,             \* one outbound call passing through a client's interceptors
  wh,             \* the webhook request handled last and its response
  call,           \* the updateOrderStatus call made last from outside and its result
  writers,       \* updateOrderStatus calls running side by side: args, record read
  getters,       \* getUpsellCatalog calls made directly: property, position, catalog returned
  uber,           \* UberService: tokenCache and the getValidToken call underway
  svc             \* ServiceRequestService: redis service-request:<id> entries, the call made last

vars == <<catalogCache, builds, orderCache, now, pc, dto, cat, local, line,
          quote, upd, err, sent, rq, wh, call, writers, getters, uber, svc>>
orderVars == <<catalogCache, builds, orderCache, now, pc, dto, cat, local, line,
               quote, upd, err, sent>>


\* ---- pure parts of createUpsellOrder ------------------------------------
Min(S) == CHOOSE x \in S : \A y \in S : x <= y

\* catalog.find(c => c.id === upsellId): the first match, None when absent
CatalogFind(catalog, upsellId) ==
  LET S == {i \in DOMAIN catalog : catalog[i].id = upsellId}
  IN  IF S = {} THEN NoItem ELSE catalog[Min(S)]

\* Error thrown by the map callback for one line, None when the line passes.
LineErrorIgnoringAvailability(catalog, item) ==
  IF CatalogFind(catalog, item.upsellId) = NoItem THEN "ItemNotFound" ELSE None

LineError(catalog, item) ==
  LET catalogItem == CatalogFind(catalog, item.upsellId)
  IN  IF catalogItem = NoItem THEN "ItemNotFound"
      ELSE IF ~catalogItem.available THEN "ItemUnavailable"
      ELSE None

\* dto.items.map(...) throws at the first line that fails; None when all pass.
ValidationError(catalog, items) ==
  LET bad == {i \in DOMAIN items : LineError(catalog, items[i]) # None}
  IN  IF bad = {} THEN None ELSE LineError(catalog, items[Min(bad)])

\* price stored on a line and used for the total
LinePriceFromCaller(catalogItem, item) ==
  IF item.metadata.price # 0 THEN item.metadata.price ELSE catalogItem.price

LinePrice(catalogItem, item) == catalogItem.price

\* the mapped order lines
OrderItems(catalog, items) ==
  [i \in DOMAIN items |->
     [upsellId |-> items[i].upsellId,
      quantity |-> items[i].quantity,
      price    |-> LinePrice(CatalogFind(catalog, items[i].upsellId), items[i]),
      metadata |-> items[i].metadata]]

\* totalAmount += catalogItem.price * item.quantity, accumulated in line order
RECURSIVE TotalUpTo(_, _, _)
TotalUpTo(catalog, items, n) ==
  IF n = 0 THEN 0
  ELSE TotalUpTo(catalog, items, n - 1)
       + LinePrice(CatalogFind(catalog, items[n].upsellId), items[n])
         * items[n].quantity

TotalAmount(catalog, items) == TotalUpTo(catalog, items, Len(items))

NewOrder(id, request, catalog, t) ==
  [id               |-> id,
   propertyId       |-> request.propertyId,
   guestId          |-> request.guestId,
   items            |-> OrderItems(catalog, request.items),
   totalAmount      |-> TotalAmount(catalog, request.items),
   status           |-> PENDING,
   externalOrderId  |-> None,
   externalProvider |-> None,
   createdAt        |-> t,
   updatedAt        |-> t,
   completedAt      |-> NoTime,
   cancelledAt      |-> NoTime,
   refundedAt       |-> NoTime]

\* the record updateOrderStatus writes, no terminal timestamp stamped
UpdatedOrderNoStamp(order, status, externalOrderId, externalProvider, t) ==
  [order EXCEPT
     !.status           = status,
     !.externalOrderId  = externalOrderId,
     !.externalProvider = externalProvider,
     !.updatedAt        = t]

\* the record updateOrderStatus writes, every terminal timestamp stamped
UpdatedOrderStampAll(order, status, externalOrderId, externalProvider, t) ==
  [order EXCEPT
     !.status           = status,
     !.externalOrderId  = externalOrderId,
     !.externalProvider = externalProvider,
     !.updatedAt        = t,
     !.completedAt      = IF status \in {COMPLETED, CANCELLED, REFUNDED} THEN t ELSE @,
     !.cancelledAt      = IF status \in {COMPLETED, CANCELLED, REFUNDED} THEN t ELSE @,
     !.refundedAt       = IF status \in {COMPLETED, CANCELLED, REFUNDED} THEN t ELSE @]

\* the record updateOrderStatus writes: {...order, status, externalOrderId,
\* externalProvider, updatedAt} plus the terminal timestamp of the status
UpdatedOrder(order, status, externalOrderId, externalProvider, t) ==
  [order EXCEPT
     !.status           = status,
     !.externalOrderId  = externalOrderId,
     !.externalProvider = externalProvider,
     !.updatedAt        = t,
     !.completedAt      = IF status = COMPLETED THEN t ELSE @,
     !.cancelledAt      = IF status = CANCELLED THEN t ELSE @,
     !.refundedAt       = IF status = REFUNDED THEN t ELSE @]

\* reference the provider returns for the line it accepted
ExternalRef(provider, c, n) == provider \o "-" \o ToString(c) \o "-" \o ToString(n)

NoUpdate == [status |-> None, externalOrderId |-> None, externalProvider |-> None,
             inCatch |-> FALSE, order |-> NoOrder]

\* no outbound call in progress / no webhook request received yet
NoRequest == [client |-> None, state |-> "idle", retry |-> 0, attempts |-> 0,
              responses |-> <<>>, delays |-> <<>>, result |-> None,
              keys |-> <<>>, created |-> <<>>, sentAt |-> <<>>, jwts |-> <<>>]
NoWebhook == [provider |-> None]
\* no updateOrderStatus call from outside yet
NoCall == [orderId |-> 0, status |-> None, externalOrderId |-> None,
           externalProvider |-> None, result |-> None, at |-> 0]

\* properties with a key upsell:catalog:<propertyId>: those guests order for
\* and one more whose catalog is only fetched
CatalogKeys == Properties \cup {"p2"}
\* private readonly CACHE_TTL = 1800
CACHE_TTL == 1800
\* callers of getUpsellCatalog (GET of the catalog) that run side by side
Getters == {"a", "b"}
NoSetex == [key |-> None, ttl |-> 0]
NoGetter == [pc |-> "idle", propertyId |-> None, hit |-> FALSE,
             result |-> NoCatalog, setex |-> NoSetex]

\* end users with an Uber account
Users == {"u1", "u2"}
\* no entry in tokenCache: Map.get returns undefined
NoToken == [token |-> 0, expiresAt |-> NoTime]
\* no getValidToken call yet
NoTokenCall == [pc |-> "idle", userId |-> None, refreshToken |-> None,
                result |-> 0, refreshed |-> FALSE, at |-> 0]

\* callers of getValidToken whose calls may overlap
TokenCallers == {"x", "y"}
\* a caller not in getValidToken; with: the callers whose calls overlapped its own
NoFlight == [pc |-> "idle", userId |-> None, result |-> 0, refreshed |-> FALSE,
             with |-> {}]

\* ids createServiceRequest issues (uuidv4)
Requests == {1}
\* ids under which service requests are looked up: 0 is an id never issued
RequestIds == Requests \cup {0}
\* ServiceRequestStatus.ASSIGNED; the other values are those of the order statuses
ASSIGNED == "assigned"
\* guestRating as stored: absent, a number, or null (JSON.stringify of NaN)
NoRating == [kind |-> "undefined", v |-> 0]
\* no entry under service-request:<id>
NoServiceRequest == [id |-> 0, priority |-> None, status |-> None,
                     slaDeadline |-> NoTime, createdAt |-> NoTime, updatedAt |-> NoTime,
                     assignedTo |-> None, assignedAt |-> NoTime,
                     completedAt |-> NoTime, cancelledAt |-> NoTime,
                     guestRating |-> NoRating, guestFeedback |-> None]
NoServiceCall == [op |-> None, id |-> 0, result |-> None, returned |-> NoServiceRequest,
                  rating |-> NoRating, feedback |-> None, priority |-> None,
                  overdue |-> FALSE, at |-> NoTime]

\* callers of updateOrderStatus that run side by side
Writers == {"first", "second"}
NoWriter == [pc |-> "idle", orderId |-> 0, status |-> None, externalOrderId |-> None,
             externalProvider |-> None, order |-> NoOrder, at |-> NoTime]

Init ==
  /\ catalogCache = [p \in CatalogKeys |-> NoCatalog]
  /\ builds = 0
  /\ orderCache = [c \in Calls |-> NoOrder]
  /\ now = 0
  /\ pc = [c \in Calls |-> "idle"]
  /\ dto = [c \in Calls |-> NoDto]
  /\ cat = [c \in Calls |-> NoCatalog]
  /\ local = [c \in Calls |-> NoOrder]
  /\ line = [c \in Calls |-> 0]
  /\ quote = [c \in Calls |-> None]
  /\ upd = [c \in Calls |-> NoUpdate]
  /\ err = [c \in Calls |-> None]
  /\ sent = [c \in Calls |-> <<>>]
  /\ rq = NoRequest
  /\ wh = NoWebhook
  /\ call = NoCall
  /\ writers = [w \in Writers |-> NoWriter]
  /\ getters = [g \in Getters |-> NoGetter]
  /\ uber = [tokenCache |-> [u \in Users |-> NoToken], call |-> NoTokenCall, issued |-> 0,
             flights |-> [g \in TokenCallers |-> NoFlight]]
  /\ svc = [store |-> [id \in RequestIds |-> NoServiceRequest], call |-> NoServiceCall]


\* ---- outcome of one attempt and the interceptor's decision on it ----------
\* What one attempt can end in: a response with an HTTP status, or an axios
\* error without a response (status 0) carrying an error code.
Responses ==
  {[status |-> 200, code |-> None]}
    \cup {[status |-> s, code |-> "ERR_BAD_REQUEST"] : s \in {400, 401, 403, 404, 409, 422, 429}}
    \cup {[status |-> s, code |-> "ERR_BAD_RESPONSE"] : s \in {500, 503}}
    \cup {[status |-> 0, code |-> k] : k \in {"ECONNABORTED", "ETIMEDOUT", "ECONNRESET"}}

\* axios resolves 2xx and rejects everything else
IsSuccess(r) == r.status >= 200 /\ r.status < 300

\* error.code === 'ECONNABORTED' || error.code === 'ETIMEDOUT' ||
\* (error.response?.status && error.response.status >= 500)
IsRetryableAnyError(r) == r.status = 0 \/ r.status >= 400

IsRetryable(r) ==
  \/ r.code = "ECONNABORTED"
  \/ r.code = "ETIMEDOUT"
  \/ (r.status # 0 /\ r.status >= 500)

\* !originalRequest._retry: the field is undefined (0 here) on the first
\* failure and keeps its value on the re-issued request's config
RetryUnmarked(retry) == retry = 0

\* Math.min(1000 * Math.pow(2, _retry - 1), 10000)
BackoffDelay(retry) ==
  IF 1000 * 2^(retry - 1) < 10000 THEN 1000 * 2^(retry - 1) ELSE 10000

\* The responses a ride request meets at the bounds: accepted, rejected for
\* its user token, provider down.
RideResponses == {r \in Responses : r.status \in {200, 401, 503}}

\* A client call seen from its caller: the interceptor chain applied to the
\* responses the attempts meet, attempt n with the _retry mark left by the
\* attempts before it.  ok: the promise resolved; attempts: requests sent;
\* status: the status of the last response; seen: the statuses in order.
RECURSIVE ClientOutcome(_, _, _)
ClientOutcome(responses, n, retry) ==
  LET r == responses[n]
      seen == [i \in 1..n |-> responses[i].status]
  IN  IF IsSuccess(r)
      THEN [ok |-> TRUE, attempts |-> n, status |-> r.status, seen |-> seen]
      ELSE IF RetryUnmarked(retry) /\ IsRetryable(r) /\ retry + 1 <= 3
                /\ n < Len(responses)
           THEN ClientOutcome(responses, n + 1, retry + 1)
           ELSE [ok |-> FALSE, attempts |-> n, status |-> r.status, seen |-> seen]

\* the outcomes of requestRide: every response at every attempt
RideOutcomes ==
  {ClientOutcome(<<r1, r2>>, 1, 0) : r1 \in RideResponses, r2 \in RideResponses}


\* ---- createUpsellOrder, step by step ------------------------------------
\* the ids a guest can name: those of the catalogs handed out so far, or an
\* id of its own making
KnownIds == {id \in UpsellIds : id[1] <= builds}

\* a guest posts an order request; the slot's previous order has expired
Start(c) ==
  /\ pc[c] = "idle"
  /\ orderCache[c] = NoOrder
  /\ \E items \in DtoItems, g \in Guests, p \in Properties :
       /\ \A i \in DOMAIN items : items[i].upsellId \in KnownIds
       /\ dto' = [dto EXCEPT ![c] = [items |-> items, guestId |-> g, propertyId |-> p]]
  /\ pc' = [pc EXCEPT ![c] = "catalog"]
  /\ UNCHANGED <<catalogCache, builds, orderCache, now, cat, local, line,
                 quote, upd, err, sent>>
  /\ UNCHANGED <<rq, wh, call, writers, getters, uber, svc>>

\* getUpsellCatalog: cache read; a hit returns the cached catalog
GetCachedCatalog(c) ==
  /\ pc[c] = "catalog"
  /\ LET cached == catalogCache[dto[c].propertyId]
     IN  IF cached # NoCatalog
         THEN /\ cat' = [cat EXCEPT ![c] = cached]
              /\ pc' = [pc EXCEPT ![c] = "validate"]
         ELSE /\ pc' = [pc EXCEPT ![c] = "build"]
              /\ UNCHANGED cat
  /\ UNCHANGED <<catalogCache, builds, orderCache, now, dto, local, line,
                 quote, upd, err, sent>>
  /\ UNCHANGED <<rq, wh, call, writers, getters, uber, svc>>

\* getUpsellCatalog: on a miss build the catalog and write it to the cache
BuildAndCacheCatalog(c) ==
  /\ pc[c] = "build"
  /\ builds < MaxBuilds
  /\ builds' = builds + 1
  /\ catalogCache' = [catalogCache EXCEPT ![dto[c].propertyId] = BuildCatalog(builds')]
  /\ cat' = [cat EXCEPT ![c] = BuildCatalog(builds')]
  /\ pc' = [pc EXCEPT ![c] = "validate"]
  /\ UNCHANGED <<orderCache, now, dto, local, line, quote, upd, err, sent>>
  /\ UNCHANGED <<rq, wh, call, writers, getters, uber, svc>>

\* validate and price the lines and build the order, without cacheOrder
ValidateWithoutPersist(c) ==
  /\ pc[c] = "validate"
  /\ LET e == ValidationError(cat[c], dto[c].items)
     IN  IF e # None
         THEN /\ err' = [err EXCEPT ![c] = e]
              /\ pc' = [pc EXCEPT ![c] = "failed"]
              /\ UNCHANGED <<now, local, line>>
         ELSE /\ local' = [local EXCEPT ![c] = NewOrder(c, dto[c], cat[c], now)]
              /\ now' = now + 1
              /\ line' = [line EXCEPT ![c] = 1]
              /\ pc' = [pc EXCEPT ![c] = "dispatch"]
              /\ UNCHANGED err
  /\ UNCHANGED <<catalogCache, builds, orderCache, dto, cat, quote, upd, sent>>
  /\ UNCHANGED <<rq, wh, call, writers, getters, uber, svc>>

\* validate and price the lines; throw, or build the order and cacheOrder it
ValidateAndPersist(c) ==
  /\ pc[c] = "validate"
  /\ LET e == ValidationError(cat[c], dto[c].items)
     IN  IF e # None
         THEN /\ err' = [err EXCEPT ![c] = e]
              /\ pc' = [pc EXCEPT ![c] = "failed"]
              /\ UNCHANGED <<orderCache, now, local, line>>
         ELSE /\ local' = [local EXCEPT ![c] = NewOrder(c, dto[c], cat[c], now)]
              /\ orderCache' = [orderCache EXCEPT ![c] = local'[c]]
              /\ now' = now + 1
              /\ line' = [line EXCEPT ![c] = 1]
              /\ pc' = [pc EXCEPT ![c] = "dispatch"]
              /\ UNCHANGED err
  /\ UNCHANGED <<catalogCache, builds, dto, cat, quote, upd, sent>>
  /\ UNCHANGED <<rq, wh, call, writers, getters, uber, svc>>

\* ---- processExternalIntegrations ------------------------------------------
CurrentItem(c) == local[c].items[line[c]]
\* catalogItem?.metadata?.provider of the line being dispatched
CurrentProvider(c) == CatalogFind(cat[c], CurrentItem(c).upsellId).provider
Dispatching(c) == pc[c] = "dispatch" /\ line[c] <= Len(local[c].items)

\* begin updateOrderStatus(order.id, status, externalOrderId, externalProvider)
CallUpdate(c, status, externalOrderId, externalProvider, inCatch) ==
  /\ upd' = [upd EXCEPT ![c] = [status |-> status,
                                externalOrderId |-> externalOrderId,
                                externalProvider |-> externalProvider,
                                inCatch |-> inCatch,
                                order |-> NoOrder]]
  /\ pc' = [pc EXCEPT ![c] = "updRead"]

\* the catch block of the loop body
DispatchFailureRethrow(c, provider) ==
  /\ err' = [err EXCEPT ![c] = "DispatchFailed"]
  /\ pc' = [pc EXCEPT ![c] = "failed"]
  /\ UNCHANGED upd

\* a catch block that keeps what an earlier line stored
DispatchFailureKeepsOrder(c, provider) ==
  /\ CallUpdate(c, orderCache[c].status, orderCache[c].externalOrderId, provider, TRUE)
  /\ UNCHANGED err

DispatchFailure(c, provider) ==
  /\ CallUpdate(c, PENDING, None, provider, TRUE)
  /\ UNCHANGED err

\* continue past a line without provider, or past any line once a dispatch failed
DispatchSkipAfterFailure(c) ==
  /\ Dispatching(c)
  /\ \/ CurrentProvider(c) = None
     \/ \E k \in DOMAIN sent[c] : ~sent[c][k].ok
  /\ line' = [line EXCEPT ![c] = @ + 1]
  /\ UNCHANGED <<catalogCache, builds, orderCache, now, pc, dto, cat, local,
                 quote, upd, err, sent>>
  /\ UNCHANGED <<rq, wh, call, writers, getters, uber, svc>>

\* the line's catalog item has no provider: continue
DispatchSkip(c) ==
  /\ Dispatching(c)
  /\ CurrentProvider(c) = None
  /\ line' = [line EXCEPT ![c] = @ + 1]
  /\ UNCHANGED <<catalogCache, builds, orderCache, now, pc, dto, cat, local,
                 quote, upd, err, sent>>
  /\ UNCHANGED <<rq, wh, call, writers, getters, uber, svc>>

\* process*: required metadata is missing, thrown before any provider call
DispatchMissingMetadata(c) ==
  /\ Dispatching(c)
  /\ CurrentProvider(c) # None
  /\ ~CurrentItem(c).metadata.complete
  /\ DispatchFailure(c, CurrentProvider(c))
  /\ UNCHANGED <<catalogCache, builds, orderCache, now, dto, cat, local, line,
                 quote, sent>>
  /\ UNCHANGED <<rq, wh, call, writers, getters, uber, svc>>

\* one request to a provider and the outcome its client reports for it
Send(c, endpoint, ref, ok) ==
  sent' = [sent EXCEPT ![c] = Append(@, [line |-> line[c], endpoint |-> endpoint,
                                         ref |-> ref, ok |-> ok])]

\* where the user token of a ride request comes from: the caller's line
\* metadata, or the token cache behind getValidToken
FromMetadata == "item.metadata.userToken"
FromGetValidToken == "getValidToken"

\* a ride request with the user token taken from the line's metadata; the
\* client reports attempts and last status
SendVia(c, endpoint, ref, outcome) ==
  sent' = [sent EXCEPT ![c] = Append(@, [line |-> line[c], endpoint |-> endpoint,
                                         ref |-> ref, ok |-> outcome.ok,
                                         attempts |-> outcome.attempts,
                                         status |-> outcome.status,
                                         seen |-> outcome.seen,
                                         userToken |-> FromMetadata])]

\* processUberRideRequest: uberService.requestRide, then updateOrderStatus
UberRequestRide(c) ==
  /\ Dispatching(c)
  /\ CurrentProvider(c) = "uber"
  /\ CurrentItem(c).metadata.complete
  /\ \E outcome \in RideOutcomes :
       /\ SendVia(c, "uber/requests", None, outcome)
       /\ IF outcome.ok
          THEN /\ CallUpdate(c, CONFIRMED, ExternalRef("uber", c, line[c]), "uber", FALSE)
               /\ UNCHANGED err
          ELSE DispatchFailure(c, "uber")
  /\ UNCHANGED <<catalogCache, builds, orderCache, now, dto, cat, local, line, quote>>
  /\ UNCHANGED <<rq, wh, call, writers, getters, uber, svc>>

\* a processDoorDashDelivery that goes on to createDelivery whatever the quote
\* call answered
DoorDashQuoteUnchecked(c) ==
  /\ Dispatching(c)
  /\ CurrentProvider(c) = "doordash"
  /\ CurrentItem(c).metadata.complete
  /\ \E ok \in BOOLEAN :
       /\ Send(c, "doordash/quotes", "quote-" \o ExternalRef("doordash", c, line[c]), ok)
       /\ quote' = [quote EXCEPT ![c] = "quote-" \o ExternalRef("doordash", c, line[c])]
       /\ pc' = [pc EXCEPT ![c] = "place"]
       /\ UNCHANGED <<upd, err>>
  /\ UNCHANGED <<catalogCache, builds, orderCache, now, dto, cat, local, line>>
  /\ UNCHANGED <<rq, wh, call, writers, getters, uber, svc>>

\* processDoorDashDelivery: getDeliveryQuote with a fresh external_delivery_id
DoorDashQuote(c) ==
  /\ Dispatching(c)
  /\ CurrentProvider(c) = "doordash"
  /\ CurrentItem(c).metadata.complete
  /\ \E ok \in BOOLEAN :
       /\ Send(c, "doordash/quotes", "quote-" \o ExternalRef("doordash", c, line[c]), ok)
       /\ IF ok
          THEN /\ quote' = [quote EXCEPT ![c] = "quote-" \o ExternalRef("doordash", c, line[c])]
               /\ pc' = [pc EXCEPT ![c] = "place"]
               /\ UNCHANGED <<upd, err>>
          ELSE /\ DispatchFailure(c, "doordash")
               /\ UNCHANGED quote
  /\ UNCHANGED <<catalogCache, builds, orderCache, now, dto, cat, local, line>>
  /\ UNCHANGED <<rq, wh, call, writers, getters, uber, svc>>

\* processDoorDashDelivery: createDelivery(quote, ...), then updateOrderStatus
DoorDashCreateDelivery(c) ==
  /\ pc[c] = "place"
  /\ CurrentProvider(c) = "doordash"
  /\ quote' = [quote EXCEPT ![c] = None]
  /\ \E ok \in BOOLEAN :
       /\ Send(c, "doordash/deliveries", quote[c], ok)
       /\ IF ok
          THEN /\ CallUpdate(c, CONFIRMED, quote[c], "doordash", FALSE)
               /\ UNCHANGED err
          ELSE DispatchFailure(c, "doordash")
  /\ UNCHANGED <<catalogCache, builds, orderCache, now, dto, cat, local, line>>
  /\ UNCHANGED <<rq, wh, call, writers, getters, uber, svc>>

\* processInstacartOrder: getOrderEstimate
InstacartEstimate(c) ==
  /\ Dispatching(c)
  /\ CurrentProvider(c) = "instacart"
  /\ CurrentItem(c).metadata.complete
  /\ \E ok \in BOOLEAN :
       /\ Send(c, "instacart/orders/estimate", None, ok)
       /\ IF ok
          THEN /\ quote' = [quote EXCEPT ![c] = "estimate"]
               /\ pc' = [pc EXCEPT ![c] = "place"]
               /\ UNCHANGED <<upd, err>>
          ELSE /\ DispatchFailure(c, "instacart")
               /\ UNCHANGED quote
  /\ UNCHANGED <<catalogCache, builds, orderCache, now, dto, cat, local, line>>
  /\ UNCHANGED <<rq, wh, call, writers, getters, uber, svc>>

\* processInstacartOrder: createOrder, then updateOrderStatus
InstacartCreateOrder(c) ==
  /\ pc[c] = "place"
  /\ CurrentProvider(c) = "instacart"
  /\ quote' = [quote EXCEPT ![c] = None]
  /\ \E ok \in BOOLEAN :
       /\ Send(c, "instacart/orders", None, ok)
       /\ IF ok
          THEN /\ CallUpdate(c, CONFIRMED, ExternalRef("instacart", c, line[c]), "instacart", FALSE)
               /\ UNCHANGED err
          ELSE DispatchFailure(c, "instacart")
  /\ UNCHANGED <<catalogCache, builds, orderCache, now, dto, cat, local, line>>
  /\ UNCHANGED <<rq, wh, call, writers, getters, uber, svc>>

\* updateOrderStatus: getOrderById; 'Order not found' when the record is gone.
\* Thrown from the try block it lands in the catch block, thrown from the
\* catch block it leaves processExternalIntegrations and createUpsellOrder.
UpdateRead(c) ==
  /\ pc[c] = "updRead"
  /\ IF orderCache[c] # NoOrder
     THEN /\ upd' = [upd EXCEPT ![c].order = orderCache[c]]
          /\ pc' = [pc EXCEPT ![c] = "updWrite"]
          /\ UNCHANGED err
     ELSE IF upd[c].inCatch
          THEN /\ err' = [err EXCEPT ![c] = "OrderNotFound"]
               /\ pc' = [pc EXCEPT ![c] = "failed"]
               /\ UNCHANGED upd
          ELSE DispatchFailure(c, upd[c].externalProvider)
  /\ UNCHANGED <<catalogCache, builds, orderCache, now, dto, cat, local, line,
                 quote, sent>>
  /\ UNCHANGED <<rq, wh, call, writers, getters, uber, svc>>

\* updateOrderStatus: cacheOrder(updated); the loop moves to the next line
UpdateWrite(c) ==
  /\ pc[c] = "updWrite"
  /\ orderCache' = [orderCache EXCEPT ![c] =
       UpdatedOrder(upd[c].order, upd[c].status, upd[c].externalOrderId,
                    upd[c].externalProvider, now)]
  /\ now' = now + 1
  /\ upd' = [upd EXCEPT ![c] = NoUpdate]
  /\ line' = [line EXCEPT ![c] = @ + 1]
  /\ pc' = [pc EXCEPT ![c] = "dispatch"]
  /\ UNCHANGED <<catalogCache, builds, dto, cat, local, quote, err, sent>>
  /\ UNCHANGED <<rq, wh, call, writers, getters, uber, svc>>

\* the loop is over: createUpsellOrder returns its order object
Return(c) ==
  /\ pc[c] = "dispatch"
  /\ line[c] > Len(local[c].items)
  /\ pc' = [pc EXCEPT ![c] = "done"]
  /\ UNCHANGED <<catalogCache, builds, orderCache, now, dto, cat, local, line,
                 quote, upd, err, sent>>
  /\ UNCHANGED <<rq, wh, call, writers, getters, uber, svc>>

\* ---- environment -----------------------------------------------------------
\* The order record outlives a finished call until its TTL (1800 s) runs out;
\* the slot then stands for another uuid.  A call of MaxLines lines lasts at
\* most MaxLines * 2 calls * 2 attempts * 30 s plus backoff, far below the
\* TTL, so the record does not expire under a call in progress.  Time is
\* measured from the oldest live record.
OrderExpire(c) ==
  /\ pc[c] \in {"done", "failed"}
  /\ orderCache' = [orderCache EXCEPT ![c] = NoOrder]
  /\ now' = 0
  /\ pc' = [pc EXCEPT ![c] = "idle"]
  /\ dto' = [dto EXCEPT ![c] = NoDto]
  /\ cat' = [cat EXCEPT ![c] = NoCatalog]
  /\ local' = [local EXCEPT ![c] = NoOrder]
  /\ line' = [line EXCEPT ![c] = 0]
  /\ quote' = [quote EXCEPT ![c] = None]
  /\ upd' = [upd EXCEPT ![c] = NoUpdate]
  /\ err' = [err EXCEPT ![c] = None]
  /\ sent' = [sent EXCEPT ![c] = <<>>]
  /\ UNCHANGED <<catalogCache, builds>>
  /\ UNCHANGED <<rq, wh, call, writers, getters, uber, svc>>

\* A call reads the catalog entry once, in GetCachedCatalog, and never looks
\* at it again: a change of the entry while the call validates and dispatches
\* has the effect of the same change right after the call, so the entry is
\* only changed when no call is in that span.
CatalogQuiet == \A c \in Calls : pc[c] \in {"idle", "catalog", "build", "done", "failed"}

\* the catalog entry's TTL runs out
CatalogExpire(p) ==
  /\ CatalogQuiet
  /\ catalogCache[p] # NoCatalog
  /\ builds < MaxBuilds
  /\ catalogCache' = [catalogCache EXCEPT ![p] = NoCatalog]
  /\ UNCHANGED <<builds, orderCache, now, pc, dto, cat, local, line, quote,
                 upd, err, sent>>
  /\ UNCHANGED <<rq, wh, call, writers, getters, uber, svc>>

\* The cache is an external shared store: the back office delists an item of
\* the published catalog (available: false), the case the availability check
\* of createUpsellOrder exists for.
CatalogDelist(p, i) ==
  /\ CatalogQuiet
  /\ catalogCache[p] # NoCatalog
  /\ i \in DOMAIN catalogCache[p]
  /\ \A j \in DOMAIN catalogCache[p] : catalogCache[p][j].available
  /\ catalogCache' = [catalogCache EXCEPT ![p][i].available = FALSE]
  /\ UNCHANGED <<builds, orderCache, now, pc, dto, cat, local, line, quote,
                 upd, err, sent>>
  /\ UNCHANGED <<rq, wh, call, writers, getters, uber, svc>>

Next ==
  \/ \E c \in Calls : Start(c)
  \/ \E c \in Calls : GetCachedCatalog(c)
  \/ \E c \in Calls : BuildAndCacheCatalog(c)
  \/ \E c \in Calls : ValidateAndPersist(c)
  \/ \E c \in Calls : DispatchSkip(c)
  \/ \E c \in Calls : DispatchMissingMetadata(c)
  \/ \E c \in Calls : UberRequestRide(c)
  \/ \E c \in Calls : DoorDashQuote(c)
  \/ \E c \in Calls : DoorDashCreateDelivery(c)
  \/ \E c \in Calls : InstacartEstimate(c)
  \/ \E c \in Calls : InstacartCreateOrder(c)
  \/ \E c \in Calls : UpdateRead(c)
  \/ \E c \in Calls : UpdateWrite(c)
  \/ \E c \in Calls : Return(c)
  \/ \E c \in Calls : OrderExpire(c)
  \/ \E p \in Properties : CatalogExpire(p)
  \/ \E p \in Properties, i \in DelistIdx : CatalogDelist(p, i)

Spec == Init /\ [][Next]_vars



\* ---- the order record after its creation -----------------------------------
\* requests of at most one line, one unit
SingleLineDtos ==
  {items \in DtoItems :
     Len(items) <= 1 /\ \A i \in DOMAIN items : items[i].quantity = 1}

\* a guest posts an order request of at most one line
StartSingle(c) ==
  /\ pc[c] = "idle"
  /\ orderCache[c] = NoOrder
  /\ \E items \in SingleLineDtos, g \in Guests, p \in Properties :
       /\ \A i \in DOMAIN items : items[i].upsellId \in KnownIds
       /\ dto' = [dto EXCEPT ![c] = [items |-> items, guestId |-> g, propertyId |-> p]]
  /\ pc' = [pc EXCEPT ![c] = "catalog"]
  /\ UNCHANGED <<catalogCache, builds, orderCache, now, cat, local, line,
                 quote, upd, err, sent>>
  /\ UNCHANGED <<rq, wh, call, writers, getters, uber, svc>>

\* order ids a caller can pass: those of the slots, and 0, an id no order had
OrderIds == Calls \cup {0}
Statuses == {PENDING, CONFIRMED, IN_PROGRESS, COMPLETED, CANCELLED, REFUNDED}
\* the optional arguments externalOrderId, externalProvider: both left out, or given
ExternalArgs == { [externalOrderId |-> None, externalProvider |-> None],
                  [externalOrderId |-> "ride-77", externalProvider |-> "uber"] }

\* getOrderById: the cached record, null when the key is absent
GetOrderById(orderId) ==
  IF orderId \in DOMAIN orderCache THEN orderCache[orderId] ELSE NoOrder

\* no createUpsellOrder call is between its first and its last step
NoCallUnderway == \A c \in Calls : pc[c] \in {"idle", "done", "failed"}

\* updateOrderStatus called from outside createUpsellOrder (the method is
\* public): read, throw 'Order not found' or build the record and cacheOrder it.
\* The callers are taken to come between the createUpsellOrder calls.
UpdateOrderStatusUpsert(orderId, status, externalOrderId, externalProvider) ==
  /\ now < MaxClock
  /\ NoCallUnderway
  /\ orderId \in DOMAIN orderCache
  /\ LET found == orderCache[orderId]
         order == IF found # NoOrder THEN found
                  ELSE NewOrder(orderId, [propertyId |-> None, guestId |-> None,
                                          items |-> <<>>], NoCatalog, now)
     IN  /\ orderCache' = [orderCache EXCEPT ![orderId] =
              UpdatedOrder(order, status, externalOrderId, externalProvider, now)]
         /\ call' = [orderId |-> orderId, status |-> status,
                     externalOrderId |-> externalOrderId,
                     externalProvider |-> externalProvider,
                     result |-> IF found = NoOrder THEN "OrderNotFound" ELSE "ok",
                     at |-> now]
  /\ now' = now + 1
  /\ UNCHANGED <<catalogCache, builds, pc, dto, cat, local, line, quote, upd,
                 err, sent, rq, wh, writers, getters, uber, svc>>

UpdateOrderStatus(orderId, status, externalOrderId, externalProvider) ==
  /\ now < MaxClock
  /\ NoCallUnderway
  /\ LET order == GetOrderById(orderId)
     IN  IF order = NoOrder
         THEN /\ call' = [orderId |-> orderId, status |-> status,
                          externalOrderId |-> externalOrderId,
                          externalProvider |-> externalProvider,
                          result |-> "OrderNotFound", at |-> now]
              /\ UNCHANGED <<orderCache, now>>
         ELSE /\ orderCache' = [orderCache EXCEPT ![orderId] =
                   UpdatedOrder(order, status, externalOrderId, externalProvider, now)]
              /\ now' = now + 1
              /\ call' = [orderId |-> orderId, status |-> status,
                          externalOrderId |-> externalOrderId,
                          externalProvider |-> externalProvider,
                          result |-> "ok", at |-> now]
  /\ UNCHANGED <<catalogCache, builds, pc, dto, cat, local, line, quote, upd,
                 err, sent, rq, wh, writers, getters, uber, svc>>

NextStatus ==
  \/ \E c \in Calls : StartSingle(c)
  \/ \E c \in Calls : GetCachedCatalog(c)
  \/ \E c \in Calls : BuildAndCacheCatalog(c)
  \/ \E c \in Calls : ValidateAndPersist(c)
  \/ \E c \in Calls : DispatchSkip(c)
  \/ \E c \in Calls : DispatchMissingMetadata(c)
  \/ \E c \in Calls : UberRequestRide(c)
  \/ \E c \in Calls : DoorDashQuote(c)
  \/ \E c \in Calls : DoorDashCreateDelivery(c)
  \/ \E c \in Calls : InstacartEstimate(c)
  \/ \E c \in Calls : InstacartCreateOrder(c)
  \/ \E c \in Calls : UpdateRead(c)
  \/ \E c \in Calls : UpdateWrite(c)
  \/ \E c \in Calls : Return(c)
  \/ \E c \in Calls : OrderExpire(c)
  \/ \E orderId \in OrderIds, status \in Statuses, args \in ExternalArgs :
       UpdateOrderStatus(orderId, status, args.externalOrderId, args.externalProvider)

SpecStatus == Init /\ [][NextStatus]_vars


\* ---- getUpsellCatalog called directly ------------------------------------
\* a catalog is built and cached also when the cache read found an entry
GetterReadAlwaysMiss(g, p) ==
  /\ getters[g].pc # "miss"
  /\ getters' = [getters EXCEPT ![g] =
        [pc |-> "miss", propertyId |-> p, hit |-> FALSE,
         result |-> NoCatalog, setex |-> NoSetex]]
  /\ UNCHANGED <<orderVars, rq, wh, call, writers, uber, svc>>

\* const cached = await this.getCachedCatalog(propertyId); if (cached) return cached
GetterRead(g, p) ==
  /\ getters[g].pc # "miss"
  /\ LET cached == catalogCache[p]
     IN  getters' = [getters EXCEPT ![g] =
           [pc |-> IF cached # NoCatalog THEN "returned" ELSE "miss",
            propertyId |-> p, hit |-> cached # NoCatalog,
            result |-> cached, setex |-> NoSetex]]
  /\ UNCHANGED <<orderVars, rq, wh, call, writers, uber, svc>>

\* build the catalog; await this.cacheCatalog(propertyId, catalog); return catalog
GetterBuild(g) ==
  /\ getters[g].pc = "miss"
  /\ builds < MaxBuilds
  /\ builds' = builds + 1
  /\ catalogCache' = [catalogCache EXCEPT ![getters[g].propertyId] = BuildCatalog(builds')]
  /\ getters' = [getters EXCEPT ![g].pc = "returned",
                                ![g].result = BuildCatalog(builds'),
                                ![g].setex = [key |-> getters[g].propertyId,
                                              ttl |-> CACHE_TTL]]
  /\ UNCHANGED <<orderCache, now, pc, dto, cat, local, line, quote, upd, err, sent,
                 rq, wh, call, writers, uber, svc>>

\* The TTL of a property's entry runs out: the key is gone, a cache epoch of
\* the property ends.  The calls that returned in the epoch are over.
CatalogEpochEnd(p) ==
  /\ catalogCache[p] # NoCatalog
  /\ builds < MaxBuilds
  /\ catalogCache' = [catalogCache EXCEPT ![p] = NoCatalog]
  /\ getters' = [g \in Getters |->
        IF getters[g].pc = "returned" /\ getters[g].propertyId = p
        THEN NoGetter ELSE getters[g]]
  /\ UNCHANGED <<builds, orderCache, now, pc, dto, cat, local, line, quote, upd,
                 err, sent, rq, wh, call, writers, uber, svc>>

NextCatalog ==
  \/ \E g \in Getters, p \in CatalogKeys : GetterRead(g, p)
  \/ \E g \in Getters : GetterBuild(g)
  \/ \E p \in CatalogKeys : CatalogEpochEnd(p)

SpecCatalog == Init /\ [][NextCatalog]_vars


\* ---- UberService.getValidToken ---------------------------------------------
\* access tokens the authorization server issues at the bounds
MaxTokens == 3
\* expires_in of a token response, in clock ticks
ExpiresIn == {1, 3}
\* a refresh token the authorization server accepts, and one it has revoked
RefreshTokens == {"valid", "revoked"}

\* cached && cached.expiresAt > new Date()
IsFresh(cached, t) == cached # NoToken /\ cached.expiresAt > t

\* getValidToken up to its await: a fresh entry is returned, otherwise
\* refreshAccessToken is called
GetValidToken(userId, refreshToken) ==
  /\ uber.call.pc # "refreshing"
  /\ LET cached == uber.tokenCache[userId]
     IN  uber' = [uber EXCEPT !.call =
           [pc |-> IF IsFresh(cached, now) THEN "returned" ELSE "refreshing",
            userId |-> userId, refreshToken |-> refreshToken,
            result |-> IF IsFresh(cached, now) THEN cached.token ELSE 0,
            refreshed |-> FALSE, at |-> now]]
  /\ UNCHANGED <<orderVars, rq, wh, call, writers, getters, svc>>

\* refreshAccessToken resolved: the entry is set, the new token returned
TokenRefreshed(expires_in) ==
  /\ uber.call.pc = "refreshing"
  /\ uber.call.refreshToken = "valid"
  /\ uber.issued < MaxTokens
  /\ LET access_token == uber.issued + 1
     IN  uber' = [uber EXCEPT
                    !.tokenCache[uber.call.userId] = [token |-> access_token,
                                                      expiresAt |-> now + expires_in],
                    !.call = [uber.call EXCEPT !.pc = "returned", !.result = access_token,
                                               !.refreshed = TRUE, !.at = now],
                    !.issued = access_token]
  /\ UNCHANGED <<orderVars, rq, wh, call, writers, getters, svc>>

\* refreshAccessToken rejected: handleError's error is thrown to the caller
TokenRefreshFailed ==
  /\ uber.call.pc = "refreshing"
  /\ uber.call.refreshToken = "revoked"
  /\ uber' = [uber EXCEPT !.call.pc = "failed", !.call.at = now]
  /\ UNCHANGED <<orderVars, rq, wh, call, writers, getters, svc>>

\* time passes
Tick ==
  /\ now < MaxClock
  /\ now' = now + 1
  /\ UNCHANGED <<catalogCache, builds, orderCache, pc, dto, cat, local, line,
                 quote, upd, err, sent, rq, wh, call, writers, getters, uber, svc>>

NextToken ==
  \/ \E userId \in Users, refreshToken \in RefreshTokens : GetValidToken(userId, refreshToken)
  \/ \E expires_in \in ExpiresIn : TokenRefreshed(expires_in)
  \/ TokenRefreshFailed
  \/ Tick

SpecToken == Init /\ [][NextToken]_vars


\* ---- getValidToken calls that overlap -------------------------------------
\* the callers of userId's token whose refresh is awaited
InFlight(userId) ==
  {h \in TokenCallers : uber.flights[h].pc = "refreshing" /\ uber.flights[h].userId = userId}

\* getValidToken up to its await, entered while other calls wait for their
\* refresh: a fresh entry is returned, otherwise refreshAccessToken is called
FlightStart(g, userId) ==
  /\ uber.flights[g].pc = "idle"
  /\ LET cached == uber.tokenCache[userId]
         fresh == IsFresh(cached, now)
     IN  uber' = [uber EXCEPT !.flights = [h \in TokenCallers |->
           IF h = g
           THEN [pc |-> IF fresh THEN "returned" ELSE "refreshing",
                 userId |-> userId,
                 result |-> IF fresh THEN cached.token ELSE 0,
                 refreshed |-> ~fresh,
                 with |-> InFlight(userId)]
           ELSE IF h \in InFlight(userId)
                THEN [uber.flights[h] EXCEPT !.with = @ \cup {g}]
                ELSE uber.flights[h]]]
  /\ UNCHANGED <<orderVars, rq, wh, call, writers, getters, svc>>

\* the caller's refreshAccessToken resolved: tokenCache.set, the new token returned
FlightRefreshed(g, expires_in) ==
  /\ uber.flights[g].pc = "refreshing"
  /\ uber.issued < MaxTokens
  /\ LET access_token == uber.issued + 1
     IN  uber' = [uber EXCEPT
                    !.tokenCache[uber.flights[g].userId] =
                       [token |-> access_token, expiresAt |-> now + expires_in],
                    !.flights[g].pc = "returned",
                    !.flights[g].result = access_token,
                    !.issued = access_token]
  /\ UNCHANGED <<orderVars, rq, wh, call, writers, getters, svc>>

\* every call made has returned; the callers are free to call again
FlightsOver ==
  /\ \E g \in TokenCallers : uber.flights[g].pc = "returned"
  /\ \A g \in TokenCallers : uber.flights[g].pc # "refreshing"
  /\ uber' = [uber EXCEPT !.flights = [g \in TokenCallers |-> NoFlight]]
  /\ UNCHANGED <<orderVars, rq, wh, call, writers, getters, svc>>

NextFlights ==
  \/ \E g \in TokenCallers, userId \in Users : FlightStart(g, userId)
  \/ \E g \in TokenCallers, expires_in \in ExpiresIn : FlightRefreshed(g, expires_in)
  \/ FlightsOver
  \/ Tick

SpecFlights == Init /\ [][NextFlights]_vars


\* ---- ServiceRequestService --------------------------------------------------
ServiceRequestPriorities == {"low", "normal", "high", "urgent"}
\* dto.priority at run time: a ServiceRequestPriority, or a value outside the enum
PriorityInputs == ServiceRequestPriorities \cup {"critical"}
ServiceRequestStatuses == {PENDING, ASSIGNED, IN_PROGRESS, COMPLETED, CANCELLED}

\* config.sla, default configuration, in minutes
SlaLow == 1440
SlaNormal == 240
SlaHigh == 60
SlaUrgent == 15

\* getSLAMinutes with the high and urgent windows exchanged
GetSLAMinutesSwapped(priority) ==
  CASE priority = "low" -> SlaLow
    [] priority = "normal" -> SlaNormal
    [] priority = "high" -> SlaUrgent
    [] priority = "urgent" -> SlaHigh
    [] OTHER -> SlaNormal

\* getSLAMinutes
GetSLAMinutes(priority) ==
  CASE priority = "low" -> SlaLow
    [] priority = "normal" -> SlaNormal
    [] priority = "high" -> SlaHigh
    [] priority = "urgent" -> SlaUrgent
    [] OTHER -> SlaNormal

\* createServiceRequest: the clock counts minutes; the id is a fresh uuidv4()
CreateServiceRequest(priority) ==
  /\ \E id \in Requests : svc.store[id] = NoServiceRequest
  /\ LET id == CHOOSE i \in Requests : svc.store[i] = NoServiceRequest
         serviceRequest == [NoServiceRequest EXCEPT
                              !.id = id, !.priority = priority, !.status = PENDING,
                              !.slaDeadline = now + GetSLAMinutes(priority),
                              !.createdAt = now, !.updatedAt = now]
     IN  svc' = [store |-> [svc.store EXCEPT ![id] = serviceRequest],
                 call |-> [NoServiceCall EXCEPT !.op = "create", !.id = id,
                                                !.result = "ok", !.priority = priority,
                                                !.returned = serviceRequest]]
  /\ UNCHANGED <<orderVars, rq, wh, call, writers, getters, uber>>

\* the dto of updateServiceRequest, every field optional: a status, with or
\* without assignedTo (assignServiceRequest passes both), or a priority
UpdateDtos ==
  {[status |-> st, assignedTo |-> None, priority |-> None] : st \in ServiceRequestStatuses}
    \cup {[status |-> ASSIGNED, assignedTo |-> "staff-1", priority |-> None]}
    \cup {[status |-> None, assignedTo |-> None, priority |-> p] :
             p \in ServiceRequestPriorities}

\* updateServiceRequest: {...existing, ...dto, updatedAt}, status-specific stamps
UpdateServiceRequest(id, d) ==
  /\ now < MaxClock
  /\ LET existing == svc.store[id]
         merged == [existing EXCEPT !.status = IF d.status # None THEN d.status ELSE @,
                                    !.assignedTo = IF d.assignedTo # None
                                                   THEN d.assignedTo ELSE @,
                                    !.priority = IF d.priority # None
                                                 THEN d.priority ELSE @,
                                    !.updatedAt = now]
         updated == CASE d.status = ASSIGNED /\ d.assignedTo # None ->
                           [merged EXCEPT !.assignedAt = now]
                      [] d.status = COMPLETED -> [merged EXCEPT !.completedAt = now]
                      [] d.status = CANCELLED -> [merged EXCEPT !.cancelledAt = now]
                      [] OTHER -> merged
     IN  IF existing = NoServiceRequest
         THEN /\ svc' = [svc EXCEPT !.call =
                          [NoServiceCall EXCEPT !.op = "update", !.id = id,
                                                !.result = "Service request not found"]]
              /\ UNCHANGED now
         ELSE /\ svc' = [svc EXCEPT !.store[id] = updated,
                                    !.call = [NoServiceCall EXCEPT
                                                !.op = "update", !.id = id,
                                                !.result = "ok", !.returned = updated]]
              /\ now' = now + 1
  /\ UNCHANGED <<catalogCache, builds, orderCache, pc, dto, cat, local, line,
                 quote, upd, err, sent, rq, wh, call, writers, getters, uber>>

\* dto.rating, a JavaScript number: an integer here, or NaN
NaN == [kind |-> "NaN", v |-> 0]
Num(n) == [kind |-> "number", v |-> n]
Ratings == {Num(n) : n \in {0, 1, 5, 6}} \cup {NaN}
Feedbacks == {None, "thanks"}
\* a < b and a > b of JavaScript: false when an operand is NaN
JsLess(a, b) == a.kind = "number" /\ b.kind = "number" /\ a.v < b.v
JsGreater(a, b) == a.kind = "number" /\ b.kind = "number" /\ a.v > b.v
\* JSON.stringify of a number: NaN is written as null
JsonNumber(a) == IF a.kind = "NaN" THEN [kind |-> "null", v |-> 0] ELSE a

\* rateServiceRequest
RateServiceRequest(id, rating, feedback) ==
  /\ now < MaxClock
  /\ LET existing == svc.store[id]
         failure == IF existing = NoServiceRequest THEN "Service request not found"
                    ELSE IF existing.status # COMPLETED
                         THEN "Can only rate completed service requests"
                    ELSE IF JsLess(rating, Num(1)) \/ JsGreater(rating, Num(5))
                         THEN "Rating must be between 1 and 5"
                    ELSE None
         updated == [existing EXCEPT !.guestRating = JsonNumber(rating),
                                     !.guestFeedback = feedback,
                                     !.updatedAt = now]
         this == [NoServiceCall EXCEPT !.op = "rate", !.id = id, !.rating = rating,
                                       !.feedback = feedback]
     IN  IF failure # None
         THEN /\ svc' = [svc EXCEPT !.call = [this EXCEPT !.result = failure]]
              /\ UNCHANGED now
         ELSE /\ svc' = [svc EXCEPT !.store[id] = updated,
                                    !.call = [this EXCEPT !.result = "ok",
                                                          !.returned = updated]]
              /\ now' = now + 1
  /\ UNCHANGED <<catalogCache, builds, orderCache, pc, dto, cat, local, line,
                 quote, upd, err, sent, rq, wh, call, writers, getters, uber>>

NextService ==
  \/ \E priority \in PriorityInputs : CreateServiceRequest(priority)
  \/ \E id \in RequestIds, d \in UpdateDtos : UpdateServiceRequest(id, d)
  \/ \E id \in RequestIds, rating \in Ratings, feedback \in Feedbacks :
       RateServiceRequest(id, rating, feedback)
  \/ Tick

SpecService == Init /\ [][NextService]_vars


\* ---- ServiceRequestService.isOverdue ----------------------------------------
\* minutes that pass while a request waits: each SLA window, and a minute more
Waits == {SlaUrgent, SlaUrgent + 1, SlaHigh, SlaHigh + 1, SlaNormal, SlaNormal + 1,
          SlaLow, SlaLow + 1}

\* the request waits
Elapse(d) ==
  /\ now <= MaxClock
  /\ now' = now + d
  /\ UNCHANGED <<catalogCache, builds, orderCache, pc, dto, cat, local, line,
                 quote, upd, err, sent, rq, wh, call, writers, getters, uber, svc>>

\* isOverdue without the test of the status
IsOverdueByDeadlineOnly(serviceRequest, t) == t > serviceRequest.slaDeadline

\* isOverdue at minute t: dayjs().isAfter(slaDeadline) unless completed or cancelled
IsOverdue(serviceRequest, t) ==
  IF serviceRequest.status = COMPLETED \/ serviceRequest.status = CANCELLED
  THEN FALSE
  ELSE t > serviceRequest.slaDeadline

\* isOverdue is called with a stored request
CheckOverdue(id) ==
  /\ svc.store[id] # NoServiceRequest
  /\ svc' = [svc EXCEPT !.call =
        [NoServiceCall EXCEPT !.op = "isOverdue", !.id = id, !.result = "ok",
                              !.returned = svc.store[id],
                              !.overdue = IsOverdue(svc.store[id], now),
                              !.at = now]]
  /\ UNCHANGED <<orderVars, rq, wh, call, writers, getters, uber>>

NextOverdue ==
  \/ \E priority \in PriorityInputs : CreateServiceRequest(priority)
  \/ \E id \in RequestIds, d \in UpdateDtos : UpdateServiceRequest(id, d)
  \/ \E d \in Waits : Elapse(d)
  \/ \E id \in Requests : CheckOverdue(id)

SpecOverdue == Init /\ [][NextOverdue]_vars


\* ---- createUpsellOrder with any quantity the body can carry -----------------
\* item.quantity is a number: nothing narrows it before createUpsellOrder
SignedQuantities == {0 - 1, 0, 1}
AnyQuantityDtos ==
  {items \in [1..1 -> [upsellId : UpsellIds, quantity : SignedQuantities,
                       metadata : Metadatas]] : TRUE}

\* a guest posts an order request of one line
StartAnyQuantity(c) ==
  /\ pc[c] = "idle"
  /\ orderCache[c] = NoOrder
  /\ \E items \in AnyQuantityDtos, g \in Guests, p \in Properties :
       /\ \A i \in DOMAIN items : items[i].upsellId \in KnownIds
       /\ dto' = [dto EXCEPT ![c] = [items |-> items, guestId |-> g, propertyId |-> p]]
  /\ pc' = [pc EXCEPT ![c] = "catalog"]
  /\ UNCHANGED <<catalogCache, builds, orderCache, now, cat, local, line,
                 quote, upd, err, sent>>
  /\ UNCHANGED <<rq, wh, call, writers, getters, uber, svc>>

NextQuantity ==
  \/ \E c \in Calls : StartAnyQuantity(c)
  \/ \E c \in Calls : GetCachedCatalog(c)
  \/ \E c \in Calls : BuildAndCacheCatalog(c)
  \/ \E c \in Calls : ValidateAndPersist(c)
  \/ \E c \in Calls : DispatchSkip(c)
  \/ \E c \in Calls : DispatchMissingMetadata(c)
  \/ \E c \in Calls : UberRequestRide(c)
  \/ \E c \in Calls : DoorDashQuote(c)
  \/ \E c \in Calls : DoorDashCreateDelivery(c)
  \/ \E c \in Calls : InstacartEstimate(c)
  \/ \E c \in Calls : InstacartCreateOrder(c)
  \/ \E c \in Calls : UpdateRead(c)
  \/ \E c \in Calls : UpdateWrite(c)
  \/ \E c \in Calls : Return(c)
  \/ \E c \in Calls : OrderExpire(c)
  \/ \E p \in Properties : CatalogExpire(p)

SpecQuantity == Init /\ [][NextQuantity]_vars


\* ---- retry interceptor of the provider clients ----------------------------
\* cap on the attempts of one call
MaxAttempts == 6

Clients == {"uber", "doordash", "instacart"}

\* What the body of a client's place call (requestRide, createDelivery,
\* createOrder) carries that its provider can deduplicate on: the quote's
\* external_delivery_id for DoorDash, nothing for Uber and Instacart.
IdempotencyKey(k) == IF k = "doordash" THEN "external_delivery_id" ELSE None

\* Whether the provider carried the attempt out: it did when it answered with
\* success, it may have when the client timed out waiting, it did not when it
\* answered with an error.
Executions(r) ==
  IF IsSuccess(r) THEN {TRUE}
  ELSE IF r.code \in {"ECONNABORTED", "ETIMEDOUT"} THEN BOOLEAN
  ELSE {FALSE}

\* The provider's external orders after an attempt with the given key: a
\* provider that honours idempotency keys creates nothing for a key it has
\* already created an order for.
ProviderOrders(created, key, executed) ==
  IF executed /\ (key = None \/ \A i \in DOMAIN created : created[i] # key)
  THEN Append(created, key)
  ELSE created

\* wall-clock seconds (Math.floor(Date.now() / 1000)) at which a call starts
StartTimes == {0, 7}
\* no signed assertion: the Uber and Instacart clients send a bearer token
NoJwt == [iat |-> NoTime, exp |-> NoTime, nbf |-> NoTime]
\* generateJWT: the payload's time fields at second t
GenerateJWT(t) == [iat |-> t, exp |-> t + 300, nbf |-> t]
\* the request interceptor of client k for an attempt at second t: DoorDash's
\* sets Authorization to a new JWT, the others only log
RequestInterceptor(k, t) == IF k = "doordash" THEN GenerateJWT(t) ELSE NoJwt

\* this.axiosInstance.post(...) of a client's place call: the first attempt
\* goes out
IssueCall(k) ==
  /\ rq.state = "idle"
  /\ \E t \in StartTimes :
       rq' = [NoRequest EXCEPT !.client = k, !.state = "inflight", !.attempts = 1,
                               !.keys = <<IdempotencyKey(k)>>,
                               !.sentAt = <<t>>,
                               !.jwts = <<RequestInterceptor(k, t)>>]
  /\ UNCHANGED <<orderVars, wh, call, writers, getters, uber, svc>>

\* the attempt in flight ends; on an error the response interceptor decides
Respond(r) ==
  /\ rq.state = "inflight"
  /\ \E executed \in Executions(r) :
       LET seen == Append(rq.responses, r)
           orders == ProviderOrders(rq.created, rq.keys[Len(rq.keys)], executed)
       IN  IF IsSuccess(r)
           THEN rq' = [rq EXCEPT !.responses = seen, !.state = "done",
                                 !.result = "success", !.created = orders]
           ELSE IF RetryUnmarked(rq.retry) /\ IsRetryable(r)
                THEN IF rq.retry + 1 <= 3
                     THEN rq' = [rq EXCEPT !.responses = seen,
                                           !.retry = rq.retry + 1,
                                           !.delays = Append(@, BackoffDelay(rq.retry + 1)),
                                           !.state = "backoff", !.created = orders]
                     ELSE rq' = [rq EXCEPT !.responses = seen,
                                           !.retry = rq.retry + 1,
                                           !.state = "done", !.result = "failure",
                                           !.created = orders]
                ELSE rq' = [rq EXCEPT !.responses = seen, !.state = "done",
                                      !.result = "failure", !.created = orders]
  /\ UNCHANGED <<orderVars, wh, call, writers, getters, uber, svc>>

\* the re-issued request carries the Authorization header the config
\* already holds
ReissueWithHeldAssertion ==
  /\ rq.state = "backoff"
  /\ rq.attempts < MaxAttempts
  /\ LET t == rq.sentAt[Len(rq.sentAt)] + (rq.delays[Len(rq.delays)] \div 1000)
     IN  rq' = [rq EXCEPT !.state = "inflight", !.attempts = @ + 1,
                          !.keys = Append(@, rq.keys[1]),
                          !.sentAt = Append(@, t),
                          !.jwts = Append(@, rq.jwts[1])]
  /\ UNCHANGED <<orderVars, wh, call, writers, getters, uber, svc>>

\* the setTimeout fires: return this.axiosInstance(originalRequest), which
\* passes the request interceptor again
Reissue ==
  /\ rq.state = "backoff"
  /\ rq.attempts < MaxAttempts
  /\ LET t == rq.sentAt[Len(rq.sentAt)] + (rq.delays[Len(rq.delays)] \div 1000)
     IN  rq' = [rq EXCEPT !.state = "inflight", !.attempts = @ + 1,
                          !.keys = Append(@, rq.keys[1]),
                          !.sentAt = Append(@, t),
                          !.jwts = Append(@, RequestInterceptor(rq.client, t))]
  /\ UNCHANGED <<orderVars, wh, call, writers, getters, uber, svc>>

\* the caller has its result; the client is free for the next call
Settle ==
  /\ rq.state = "done"
  /\ rq' = NoRequest
  /\ UNCHANGED <<orderVars, wh, call, writers, getters, uber, svc>>

NextRetry ==
  \/ \E k \in Clients : IssueCall(k)
  \/ \E r \in Responses : Respond(r)
  \/ Reissue
  \/ Settle

SpecRetry == Init /\ [][NextRetry]_vars


\* ---- provider webhook routes ------------------------------------------------
\* event vocabularies of the three providers, plus one name none of them knows
UberEvents == {"requests.status_changed", "requests.receipt_ready", "unknown"}
DoorDashEvents == {"delivery.created", "delivery.confirmed", "delivery.picked_up",
                   "delivery.delivered", "delivery.cancelled", "delivery.returned",
                   "unknown"}
InstacartEvents == {"order.created", "order.shopping", "order.delivering",
                    "order.delivered", "order.cancelled", "item.replaced",
                    "item.refunded", "unknown"}
EventIds == {"evt-1", "evt-2"}

\* the order reference an event carries (external_delivery_id, order_id,
\* meta.resource_id): the one the provider gave for slot 1's line, or another
EventRefs(provider) ==
  { IF provider = "doordash" THEN "quote-" \o ExternalRef(provider, 1, 1)
    ELSE ExternalRef(provider, 1, 1),
    "ref-unknown" }

\* request.body: a JSON object with the event fields (meta: the Uber event
\* carries its meta object), or JSON null
NullBody == [shape |-> "null", event_id |-> None, event |-> None, ref |-> None,
             meta |-> FALSE]
Bodies(provider, events, metas) ==
  [shape : {"object"}, event_id : EventIds, event : events,
   ref : EventRefs(provider), meta : metas]
    \cup {NullBody}

\* JSON.stringify(request.body)
Stringify(body) ==
  IF body.shape = "null" THEN "null"
  ELSE "{" \o body.event_id \o "," \o body.event \o "," \o body.ref \o "}"

\* crypto.createHmac('sha256', key).update(payload).digest('hex'): a digest
\* of fixed length determined by key and payload
Hmac(key, payload) == <<key, payload>>

\* signing keys: config doordash.signingSecret, config instacart.apiKey
WebhookKey(provider) ==
  IF provider = "doordash" THEN "doordash-signing-secret" ELSE "instacart-api-key"

\* the signature header of a request
NoHeader == [present |-> FALSE, value |-> <<>>]
Headers(provider, body) ==
  {NoHeader} \cup
  {[present |-> TRUE, value |-> v] :
     v \in { <<>>,                                         \* empty header value
             <<"00">>,                                     \* wrong length
             Hmac(WebhookKey(provider), Stringify(body)),  \* the provider's signature
             Hmac("forged-key", Stringify(body)),          \* signed with another key
             Hmac(WebhookKey(provider), "{}") }}           \* signature of another body

\* verifyWebhookSignature: timingSafeEqual throws on buffers of different
\* length, the catch returns false
VerifyWebhookSignature(provider, payload, signature) ==
  LET computedSignature == Hmac(WebhookKey(provider), payload)
  IN  IF Len(signature) # Len(computedSignature) THEN FALSE
      ELSE signature = computedSignature

\* `signature && ...`: undefined and '' are falsy
Truthy(header) == header.present /\ header.value # <<>>

\* the route's answer; redelivered: the request repeats the one handled just
\* before it (same event id, same payload, same header)
Answer(provider, body, header, status, processed) ==
  [provider |-> provider, body |-> body, header |-> header, status |-> status,
   processed |-> processed,
   eventId |-> IF status = 200 THEN body.event_id ELSE None,
   processedAt |-> IF status = 200 THEN now ELSE NoTime,
   redelivered |-> IF wh.provider = provider
                   THEN wh.body = body /\ wh.header = header
                   ELSE FALSE]

\* the status the fixed table of the spec gives an event (None: not in it)
MappedStatus(event) ==
  CASE event \in {"delivery.delivered", "order.delivered"} -> COMPLETED
    [] event \in {"delivery.cancelled", "order.cancelled"} -> CANCELLED
    [] event \in {"delivery.picked_up", "order.shopping", "order.delivering"} -> IN_PROGRESS
    [] event \in {"delivery.created", "delivery.confirmed", "order.created"} -> CONFIRMED
    [] OTHER -> None

\* the orders an event refers to
OrdersOf(ref) ==
  {c \in Calls : orderCache[c] # NoOrder /\ orderCache[c].externalOrderId = ref}

\* POST /webhooks/doordash and POST /webhooks/instacart
\* variant: a bad signature is answered 403
SignedWebhookForbidden(provider, body, header) ==
  /\ wh' = IF Truthy(header)
              /\ ~VerifyWebhookSignature(provider, Stringify(body), header.value)
           THEN Answer(provider, body, header, 403, FALSE)
           ELSE IF body.shape = "null"
           THEN Answer(provider, body, header, 500, FALSE)
           ELSE Answer(provider, body, header, 200, TRUE)
  /\ UNCHANGED <<orderVars, rq, call, writers, getters, uber, svc>>

\* variant: the handlers apply the table's status through updateOrderStatus
SignedWebhookApplying(provider, body, header) ==
  /\ wh' = IF Truthy(header)
              /\ ~VerifyWebhookSignature(provider, Stringify(body), header.value)
           THEN Answer(provider, body, header, 401, FALSE)
           ELSE IF body.shape = "null"
           THEN Answer(provider, body, header, 500, FALSE)
           ELSE Answer(provider, body, header, 200, TRUE)
  /\ IF wh'.status = 200 /\ MappedStatus(body.event) # None
        /\ OrdersOf(body.ref) # {} /\ now < MaxClock
     THEN /\ orderCache' = [c \in Calls |->
                IF c \in OrdersOf(body.ref)
                THEN UpdatedOrder(orderCache[c], MappedStatus(body.event),
                                  orderCache[c].externalOrderId,
                                  orderCache[c].externalProvider, now)
                ELSE orderCache[c]]
          /\ now' = now + 1
     ELSE UNCHANGED <<orderCache, now>>
  /\ UNCHANGED <<catalogCache, builds, pc, dto, cat, local, line, quote, upd,
                 err, sent, rq, call, writers, getters, uber, svc>>

SignedWebhook(provider, body, header) ==
  /\ wh' = IF Truthy(header)
              /\ ~VerifyWebhookSignature(provider, Stringify(body), header.value)
           THEN Answer(provider, body, header, 401, FALSE)
           ELSE IF body.shape = "null"
           THEN Answer(provider, body, header, 500, FALSE)
           ELSE Answer(provider, body, header, 200, TRUE)
  /\ UNCHANGED <<orderVars, rq, call, writers, getters, uber, svc>>

WebhookDoorDash ==
  \E body \in Bodies("doordash", DoorDashEvents, {FALSE}) :
    \E header \in Headers("doordash", body) :
      SignedWebhook("doordash", body, header)

WebhookInstacart ==
  \E body \in Bodies("instacart", InstacartEvents, {FALSE}) :
    \E header \in Headers("instacart", body) :
      SignedWebhook("instacart", body, header)

\* POST /webhooks/uber: no signature scheme; processWebhook reads event.meta
WebhookUber ==
  /\ \E body \in Bodies("uber", UberEvents, BOOLEAN) :
       wh' = IF body.shape = "null" THEN Answer("uber", body, NoHeader, 500, FALSE)
             ELSE IF ~body.meta THEN Answer("uber", body, NoHeader, 500, TRUE)
             ELSE Answer("uber", body, NoHeader, 200, TRUE)
  /\ UNCHANGED <<orderVars, rq, call, writers, getters, uber, svc>>

\* catalog positions bound to a provider
ProviderIdx == {i \in RequestIdx : StaticCatalog[i].provider # None}

\* the reference under which a provider knows the line it accepted
PlacedRef(provider, c, n) ==
  IF provider = "doordash" THEN "quote-" \o ExternalRef(provider, c, n)
  ELSE ExternalRef(provider, c, n)

\* the record a createUpsellOrder call for one provider-bound line leaves
\* behind: placed (CONFIRMED, with the provider's reference) or not (the catch
\* block's PENDING write)
PlacedOrder(c, request, catalog, ok, t) ==
  LET provider == CatalogFind(catalog, request.items[1].upsellId).provider
  IN  IF ok
      THEN UpdatedOrder(NewOrder(c, request, catalog, t), CONFIRMED,
                        PlacedRef(provider, c, 1), provider, t + 1)
      ELSE UpdatedOrder(NewOrder(c, request, catalog, t), PENDING,
                        None, provider, t + 1)

\* createUpsellOrder from call to return, for a ride, a food delivery or a
\* grocery delivery with the metadata its dispatch needs; the call's locals
\* are gone when it has returned
CreatePlacedOrder(c) ==
  /\ pc[c] = "idle"
  /\ orderCache[c] = NoOrder
  /\ \E i \in ProviderIdx, g \in Guests, p \in Properties, ok \in BOOLEAN :
       LET built == catalogCache[p] = NoCatalog
           catalog == IF built THEN BuildCatalog(builds + 1) ELSE catalogCache[p]
           request == [items |-> << [upsellId |-> catalog[i].id, quantity |-> 1,
                                     metadata |-> [complete |-> TRUE, price |-> 0]] >>,
                       guestId |-> g, propertyId |-> p]
       IN  /\ built => builds < MaxBuilds
           /\ ValidationError(catalog, request.items) = None
           /\ catalogCache' = [catalogCache EXCEPT ![p] = catalog]
           /\ builds' = IF built THEN builds + 1 ELSE builds
           /\ orderCache' = [orderCache EXCEPT ![c] =
                               PlacedOrder(c, request, catalog, ok, now)]
           /\ now' = now + 2
  /\ UNCHANGED <<pc, dto, cat, local, line, quote, upd, err, sent, rq, wh, call, writers, getters, uber, svc>>

\* the webhook endpoints, and the orders their events are about
NextWebhook ==
  \/ WebhookUber
  \/ WebhookDoorDash
  \/ WebhookInstacart
  \/ \E c \in Calls : CreatePlacedOrder(c)

SpecWebhook == Init /\ [][NextWebhook]_vars


\* ---- updateOrderStatus calls side by side ---------------------------------
\* const order = await this.getOrderById(orderId); throw when there is none
WriterRead(w, orderId, status, externalOrderId, externalProvider) ==
  /\ writers[w].pc # "read"
  /\ now < MaxClock
  /\ LET order == GetOrderById(orderId)
     IN  writers' = [writers EXCEPT ![w] =
           [pc |-> IF order = NoOrder THEN "failed" ELSE "read",
            orderId |-> orderId, status |-> status,
            externalOrderId |-> externalOrderId,
            externalProvider |-> externalProvider,
            order |-> order, at |-> NoTime]]
  /\ UNCHANGED <<orderVars, rq, wh, call, getters, uber, svc>>

\* updated = {...order, status, ...}; await this.cacheOrder(updated)
WriterWrite(w) ==
  /\ writers[w].pc = "read"
  /\ orderCache' = [orderCache EXCEPT ![writers[w].orderId] =
       UpdatedOrder(writers[w].order, writers[w].status, writers[w].externalOrderId,
                    writers[w].externalProvider, now)]
  /\ now' = now + 1
  /\ writers' = [writers EXCEPT ![w].pc = "done", ![w].at = now]
  /\ UNCHANGED <<catalogCache, builds, pc, dto, cat, local, line, quote, upd,
                 err, sent, rq, wh, call, getters, uber, svc>>

NextWriters ==
  \/ \E c \in Calls : CreatePlacedOrder(c)
  \/ \E w \in Writers, orderId \in OrderIds, status \in Statuses, args \in ExternalArgs :
       WriterRead(w, orderId, status, args.externalOrderId, args.externalProvider)
  \/ \E w \in Writers : WriterWrite(w)

SpecWriters == Init /\ [][NextWriters]_vars


\* ==== claims ===================================================================
\* the call has left catalog validation behind
Validated(c) == pc[c] \notin {"idle", "catalog", "build", "validate"}

\* the catalog entries carrying an id (the reading of the claims, not the code's find)
Entries(catalog, id) == {i \in DOMAIN catalog : catalog[i].id = id}

RECURSIVE SumOver(_, _)
SumOver(f, S) ==
  IF S = {} THEN 0
  ELSE LET i == CHOOSE j \in S : TRUE IN f[i] + SumOver(f, S \ {i})

\* C1: every persisted order carries, line by line, the requested id and
\* quantity and the price the resolved catalog gives that id, and its
\* totalAmount is the sum of catalog price times requested quantity; a price
\* put into the request has no influence.
C1_TotalFromCatalog ==
  \A c \in Calls :
    orderCache[c] # NoOrder =>
      LET o == orderCache[c]
          req == dto[c].items
          due == [i \in DOMAIN req |->
                    cat[c][CHOOSE j \in Entries(cat[c], req[i].upsellId) : TRUE].price
                      * req[i].quantity]
      IN  /\ DOMAIN o.items = DOMAIN req
          /\ \A i \in DOMAIN req :
               /\ Entries(cat[c], req[i].upsellId) # {}
               /\ o.items[i].upsellId = req[i].upsellId
               /\ o.items[i].quantity = req[i].quantity
               /\ \A j \in Entries(cat[c], req[i].upsellId) :
                    o.items[i].price = cat[c][j].price
          /\ o.totalAmount = SumOver(due, DOMAIN req)

\* an order of two priced lines whose request carried another price
C1_Witness ==
  \E c \in Calls :
    /\ orderCache[c] # NoOrder
    /\ orderCache[c].totalAmount = 150
    /\ Len(orderCache[c].items) = 2
    /\ \E i \in DOMAIN dto[c].items :
         /\ dto[c].items[i].metadata.price # 0
         /\ dto[c].items[i].metadata.price # orderCache[c].items[i].price

MissingLines(c) ==
  {i \in DOMAIN dto[c].items : Entries(cat[c], dto[c].items[i].upsellId) = {}}
UnavailableLines(c) ==
  {i \in DOMAIN dto[c].items :
     \E j \in Entries(cat[c], dto[c].items[i].upsellId) : ~cat[c][j].available}

\* C2: a request with a line whose id is absent from the resolved catalog, or
\* present but unavailable, is rejected as a whole with the matching error:
\* no order record is written and no provider request is sent.
C2_RejectedWhole ==
  \A c \in Calls :
    (Validated(c) /\ (MissingLines(c) # {} \/ UnavailableLines(c) # {})) =>
      /\ pc[c] = "failed"
      /\ err[c] \in {"ItemNotFound", "ItemUnavailable"}
      /\ err[c] = "ItemNotFound" => MissingLines(c) # {}
      /\ err[c] = "ItemUnavailable" => UnavailableLines(c) # {}
      /\ orderCache[c] = NoOrder
      /\ local[c] = NoOrder
      /\ sent[c] = <<>>

\* rejected for an unavailable item although the other line was valid
C2_Witness ==
  \E c \in Calls :
    /\ pc[c] = "failed"
    /\ err[c] = "ItemUnavailable"
    /\ Len(dto[c].items) = 2
    /\ Cardinality(UnavailableLines(c)) = 1
    /\ MissingLines(c) = {}

\* C3: a call whose request passed catalog validation never fails, whatever
\* the provider dispatches do.
C3_NoFailureAfterValidation ==
  \A c \in Calls :
    /\ pc[c] = "failed" => (MissingLines(c) # {} \/ UnavailableLines(c) # {})
    /\ local[c] # NoOrder => pc[c] # "failed"

\* returned although the dispatch of both provider-bound lines failed
C3_Witness ==
  \E c \in Calls :
    /\ pc[c] = "done"
    /\ Len(local[c].items) = 2
    /\ \A i \in DOMAIN local[c].items :
         \E k \in DOMAIN sent[c] : sent[c][k].line = i /\ ~sent[c][k].ok
    /\ \A k \in DOMAIN sent[c] : sent[c][k].endpoint \notin {"doordash/quotes", "instacart/orders/estimate"} => ~sent[c][k].ok

\* C4: the status update written after a failed dispatch leaves status,
\* externalOrderId and externalProvider of an order that an earlier line
\* confirmed as they were.
C4_FailureKeepsConfirmation ==
  [][\A c \in Calls :
       (/\ pc[c] = "updWrite"
        /\ upd[c].inCatch
        /\ orderCache[c] # NoOrder
        /\ orderCache[c].status = CONFIRMED
        /\ orderCache'[c] # orderCache[c])
       => /\ orderCache'[c] # NoOrder
          /\ orderCache'[c].status = orderCache[c].status
          /\ orderCache'[c].externalOrderId = orderCache[c].externalOrderId
          /\ orderCache'[c].externalProvider = orderCache[c].externalProvider]_vars

\* the failures the spec and the interceptor's comment call transient: 5xx, timeout
IsServerOrTimeout(r) ==
  r.status \in {500, 503} \/ r.code \in {"ECONNABORTED", "ETIMEDOUT"}

\* C5: a call whose first two attempts fail with 5xx or a timeout gets a third
\* attempt; when that one succeeds the call took exactly 3 attempts and the
\* caller receives the success.
C5_ThirdAttemptSucceeds ==
  (/\ rq.state = "done"
   /\ Len(rq.responses) >= 2
   /\ IsServerOrTimeout(rq.responses[1])
   /\ IsServerOrTimeout(rq.responses[2]))
  => /\ Len(rq.responses) >= 3
     /\ IsSuccess(rq.responses[3]) => (rq.attempts = 3 /\ rq.result = "success")

\* C6: a call whose first attempt fails with 400, 401, 403, 404, 409 or 422 is
\* over after that one attempt: no retry, no backoff delay, failure surfaced.
C6_NonTransientOnce ==
  (/\ Len(rq.responses) >= 1
   /\ rq.responses[1].status \in {400, 401, 403, 404, 409, 422})
  => /\ rq.state = "done"
     /\ rq.result = "failure"
     /\ rq.attempts = 1
     /\ rq.delays = <<>>

\* a call that ended on an expired token
C6_Witness ==
  /\ rq.state = "done"
  /\ rq.client = "uber"
  /\ Len(rq.responses) = 1
  /\ rq.responses[1].status = 401

\* C7: a call that fails with 5xx or a timeout on every attempt surfaces the
\* failure after exactly 4 attempts (3 retries), and no call makes more than 4.
C7_ThreeRetriesThenFail ==
  /\ rq.attempts <= 4
  /\ (/\ rq.state = "done"
      /\ rq.result = "failure"
      /\ \A i \in DOMAIN rq.responses : IsServerOrTimeout(rq.responses[i]))
     => (rq.attempts = 4 /\ Len(rq.delays) = 3)

\* the failures the spec classifies as transient: rate limited, provider
\* unreachable (5xx, no response), timeout
IsTransient(r) == r.status = 429 \/ r.status >= 500 \/ r.status = 0

\* C8: a first attempt that fails with 429, 5xx, a timeout or a network error
\* is followed by a retry, not surfaced.
C8_TransientRetried ==
  (Len(rq.responses) >= 1 /\ IsTransient(rq.responses[1]))
  => Len(rq.delays) >= 1

\* C9: a call that keeps failing with 5xx or a timeout has waited 1000, 2000
\* and 4000 ms before its retries 1, 2 and 3; no delay exceeds 10000 ms.
C9_BackoffSchedule ==
  /\ \A n \in DOMAIN rq.delays : rq.delays[n] <= 10000
  /\ (/\ rq.state = "done"
      /\ rq.result = "failure"
      /\ \A i \in DOMAIN rq.responses : IsServerOrTimeout(rq.responses[i]))
     => rq.delays = <<1000, 2000, 4000>>

\* C10: on the DoorDash and Instacart endpoints processWebhook runs only for a
\* request that carried a signature header verifying against its body.
C10_SignatureMandatory ==
  (wh.provider \in {"doordash", "instacart"} /\ wh.processed)
  => /\ wh.header.present
     /\ VerifyWebhookSignature(wh.provider, Stringify(wh.body), wh.header.value)

Terminal == {COMPLETED, CANCELLED, REFUNDED}

\* C15: COMPLETED, CANCELLED and REFUNDED are terminal: a step that leaves a
\* persisted order with one of these statuses in the cache leaves its status
\* as it was.
C15_TerminalIsFinal ==
  [][\A c \in Calls :
       (/\ orderCache[c] # NoOrder
        /\ orderCache[c].status \in Terminal
        /\ orderCache'[c] # NoOrder)
       => orderCache'[c].status = orderCache[c].status]_vars

\* what the claim C16 says of the record o that updateOrderStatus(_, s) found
\* and the record n it left, t being the clock reading of the call
StatusEffect(o, n, s, t) ==
  /\ n.status = s
  /\ n.updatedAt = t
  /\ n.completedAt = IF s = COMPLETED THEN t ELSE o.completedAt
  /\ n.cancelledAt = IF s = CANCELLED THEN t ELSE o.cancelledAt
  /\ n.refundedAt  = IF s = REFUNDED  THEN t ELSE o.refundedAt
  /\ n.id = o.id
  /\ n.items = o.items
  /\ n.totalAmount = o.totalAmount
  /\ n.guestId = o.guestId
  /\ n.createdAt = o.createdAt

\* C16: updateOrderStatus(orderId, s) on an existing order stores s and the
\* time of the call as updatedAt, sets the terminal timestamp matching s and
\* no other, and leaves id, items, totalAmount, guestId and createdAt alone;
\* this holds for the calls from outside and for those of the dispatch loop.
C16_UpdateStampsMatching ==
  [][\A c \in Calls :
       /\ (NoCallUnderway /\ now' = now + 1 /\ call'.orderId = c)
          => /\ call'.result = "ok"
             /\ orderCache[c] # NoOrder
             /\ orderCache'[c] # NoOrder
             /\ StatusEffect(orderCache[c], orderCache'[c], call'.status, now)
       /\ (pc[c] = "updWrite" /\ pc'[c] # "updWrite")
          => /\ orderCache[c] # NoOrder
             /\ orderCache'[c] # NoOrder
             /\ StatusEffect(orderCache[c], orderCache'[c], upd[c].status, now)]_vars

\* a cancelled order was set to COMPLETED: completedAt is the time of that
\* call, cancelledAt is still the earlier time, refundedAt is still absent
C16_Witness ==
  \E c \in Calls :
    /\ call.result = "ok"
    /\ call.orderId = c
    /\ call.status = COMPLETED
    /\ orderCache[c] # NoOrder
    /\ orderCache[c].status = COMPLETED
    /\ orderCache[c].completedAt = call.at
    /\ orderCache[c].cancelledAt # NoTime
    /\ orderCache[c].cancelledAt < call.at
    /\ orderCache[c].refundedAt = NoTime
    /\ orderCache[c].totalAmount = 50

\* C17: updateOrderStatus on an id without a record in the cache fails with
\* 'Order not found' and writes nothing, and it fails so only on such an id.
C17_UnknownOrderNoWrite ==
  [][(NoCallUnderway /\ call' # call)
     => /\ GetOrderById(call'.orderId) = NoOrder
           => (call'.result = "OrderNotFound" /\ orderCache' = orderCache)
        /\ call'.result = "OrderNotFound"
           => GetOrderById(call'.orderId) = NoOrder]_vars

\* the call named the id of a slot whose order record is gone, after orders
\* had been taken
C17_Witness ==
  /\ call.result = "OrderNotFound"
  /\ call.orderId \in Calls
  /\ orderCache[call.orderId] = NoOrder
  /\ builds >= 1
  /\ call.status = COMPLETED


\* C18: the order record is in the cache, with status PENDING, when the first
\* provider request of its createUpsellOrder call goes out, and it is there
\* at every later provider request of the call.
C18_PersistedBeforeDispatch ==
  [][\A c \in Calls :
       Len(sent'[c]) > Len(sent[c])
       => /\ orderCache[c] # NoOrder
          /\ orderCache[c].id = local[c].id
          /\ sent[c] = <<>> => orderCache[c].status = PENDING]_vars

\* the first provider request of a call is out, for its second line
C18_Witness ==
  \E c \in Calls :
    /\ Len(sent[c]) = 1
    /\ sent[c][1].line = 2
    /\ orderCache[c] # NoOrder
    /\ orderCache[c].status = PENDING

\* the requests a provider's dispatch begins with and ends with
FirstCall(provider) ==
  CASE provider = "uber" -> "uber/requests"
    [] provider = "doordash" -> "doordash/quotes"
    [] provider = "instacart" -> "instacart/orders/estimate"
    [] OTHER -> None
SecondCall(provider) ==
  CASE provider = "doordash" -> "doordash/deliveries"
    [] provider = "instacart" -> "instacart/orders"
    [] OTHER -> None
LineProvider(c, i) == CatalogFind(cat[c], local[c].items[i].upsellId).provider
CallsFor(c, i, endpoint) ==
  {k \in DOMAIN sent[c] : sent[c][k].line = i /\ sent[c][k].endpoint = endpoint}
ProviderLines(c) == {i \in DOMAIN local[c].items : LineProvider(c, i) # None}

\* C19: a line without provider causes no provider request.  A line bound to
\* a provider that the loop has passed was dispatched exactly once, whatever
\* happened to the other lines: its provider got the opening request once
\* (none when the line lacks the metadata the dispatch requires, which fails
\* the attempt before any request), the closing request once when the opening
\* one succeeded, and no other provider got a request for it.  Lines not yet
\* reached have no request.  At return every provider-bound line has ended in
\* exactly one status write.
C19_OneDispatchPerLine ==
  \A c \in Calls :
    local[c] # NoOrder =>
      /\ \A i \in DOMAIN local[c].items :
           LET p == LineProvider(c, i)
               all == {k \in DOMAIN sent[c] : sent[c][k].line = i}
               first == CallsFor(c, i, FirstCall(p))
               second == CallsFor(c, i, SecondCall(p))
           IN  /\ p = None => all = {}
               /\ all = first \cup second
               /\ i > line[c] => all = {}
               /\ (p # None /\ i < line[c]) =>
                    IF local[c].items[i].metadata.complete
                    THEN /\ Cardinality(first) = 1
                         /\ Cardinality(second) =
                              IF SecondCall(p) # None /\ \A k \in first : sent[c][k].ok
                              THEN 1 ELSE 0
                    ELSE all = {}
      /\ pc[c] = "done" =>
           /\ line[c] = Len(local[c].items) + 1
           /\ orderCache[c] # NoOrder
           /\ orderCache[c].updatedAt - orderCache[c].createdAt
                = Cardinality(ProviderLines(c))

\* returned: the first line's dispatch failed at its opening request, the
\* second line was dispatched all the same and accepted
C19_Witness ==
  \E c \in Calls :
    /\ pc[c] = "done"
    /\ Len(local[c].items) = 2
    /\ ProviderLines(c) = {1, 2}
    /\ \E k \in CallsFor(c, 1, FirstCall(LineProvider(c, 1))) : ~sent[c][k].ok
    /\ \E k \in CallsFor(c, 2, "doordash/deliveries") : sent[c][k].ok

\* the ride requests of a call that the provider answered with 401
Rejected401(c) ==
  {k \in DOMAIN sent[c] : /\ sent[c][k].endpoint = "uber/requests"
                          /\ \E n \in DOMAIN sent[c][k].seen : sent[c][k].seen[n] = 401}
\* no attempt followed the 401 response
NotRetriedOn401(e) == \A n \in DOMAIN e.seen : e.seen[n] = 401 => e.attempts = n
\* requests that place the order of a line with its provider
PlaceCalls == {"uber/requests", "doordash/deliveries", "instacart/orders"}

\* C20: a ride request answered with 401 is sent once, the line's reference is
\* not stored, and the persisted order is PENDING when createUpsellOrder returns.
C20_ExpiredTokenLeavesPending ==
  \A c \in Calls :
    pc[c] = "done" =>
      \A k \in Rejected401(c) :
        /\ NotRetriedOn401(sent[c][k])
        /\ orderCache[c].externalOrderId # ExternalRef("uber", c, sent[c][k].line)
        /\ orderCache[c].status = PENDING

\* the line was placed with its provider
LinePlaced(c, i) ==
  \E j \in DOMAIN sent[c] :
    sent[c][j].line = i /\ sent[c][j].ok /\ sent[c][j].endpoint \in PlaceCalls
\* the provider-bound line the loop handles last
LastProviderLine(c) ==
  CHOOSE i \in ProviderLines(c) : \A j \in ProviderLines(c) : j <= i

\* C20 as it holds: a ride request answered with 401 is sent once and the
\* line's reference is not stored; the persisted order is PENDING without
\* reference at return unless the order's last provider-bound line comes after
\* that line and was placed, and is then CONFIRMED with a reference.
C20_ExpiredTokenUndispatched ==
  \A c \in Calls :
    pc[c] = "done" =>
      \A k \in Rejected401(c) :
        /\ NotRetriedOn401(sent[c][k])
        /\ orderCache[c].externalOrderId # ExternalRef("uber", c, sent[c][k].line)
        /\ IF LinePlaced(c, LastProviderLine(c))
           THEN /\ LastProviderLine(c) > sent[c][k].line
                /\ orderCache[c].status = CONFIRMED
                /\ orderCache[c].externalOrderId # None
           ELSE /\ orderCache[c].status = PENDING
                /\ orderCache[c].externalOrderId = None

\* returned: the first line's ride was accepted, the second line's ride
\* request was answered with 401, the order is back at PENDING
C20_Witness ==
  \E c \in Calls :
    /\ pc[c] = "done"
    /\ Len(sent[c]) = 2
    /\ sent[c][1].ok
    /\ 2 \in Rejected401(c)
    /\ orderCache[c].status = PENDING


\* The order CreatePlacedOrder leaves is the one the step-by-step call leaves
\* for the same request.
PlacedOrderAgrees ==
  \A c \in Calls :
    (/\ pc[c] = "done"
     /\ Len(dto[c].items) = 1
     /\ dto[c].items[1].metadata.complete
     /\ LineProvider(c, 1) # None)
    => \E ok \in BOOLEAN :
         orderCache[c] = PlacedOrder(c, dto[c], cat[c], ok, local[c].createdAt)


\* the request just handled came to an endpoint with a signature scheme
Signed(w) == w.provider \in {"doordash", "instacart"}

\* C11: a DoorDash or Instacart request whose signature header is present and
\* does not verify against the body is answered 401, processWebhook does not
\* run for it and no order record changes.
C11_BadSignatureRejected ==
  [][(/\ wh' # wh
      /\ Signed(wh')
      /\ wh'.header.present
      /\ ~VerifyWebhookSignature(wh'.provider, Stringify(wh'.body), wh'.header.value))
     => /\ wh'.status = 401
        /\ ~wh'.processed
        /\ orderCache' = orderCache]_vars

\* C12: when an event named in the status table has been acknowledged with
\* 200, every order whose externalOrderId is the event's reference has the
\* table's status.
C12_EventSetsMappedStatus ==
  [][(/\ wh' # wh
      /\ wh'.provider # None
      /\ wh'.status = 200
      /\ MappedStatus(wh'.body.event) # None)
     => \A c \in Calls :
          (orderCache'[c] # NoOrder /\ orderCache'[c].externalOrderId = wh'.body.ref)
          => orderCache'[c].status = MappedStatus(wh'.body.event)]_vars

\* C13: the second delivery of a webhook request (same event id, payload and
\* header as the one handled just before) leaves every order record,
\* updatedAt and terminal timestamps included, as the first delivery left it.
C13_RedeliveryLeavesOrders ==
  [][(/\ wh' # wh
      /\ wh'.provider # None
      /\ wh'.redelivered)
     => orderCache' = orderCache]_vars

\* a "delivered" event about a placed order was acknowledged a second time
C13_Witness ==
  /\ wh.provider = "doordash"
  /\ wh.redelivered
  /\ wh.status = 200
  /\ wh.body.event = "delivery.delivered"
  /\ OrdersOf(wh.body.ref) # {}

\* the signature check ran and rejected the request / handling it throws
SignatureRejected(w) ==
  /\ Signed(w)
  /\ Truthy(w.header)
  /\ ~VerifyWebhookSignature(w.provider, Stringify(w.body), w.header.value)
ProcessingThrows(w) ==
  w.body.shape = "null" \/ (w.provider = "uber" /\ ~w.body.meta)

\* C14: a webhook request is answered 401 when the signature check rejects it,
\* else 500 when handling it throws, else 200 with the event's id and a
\* processedAt value, whether or not the event type is known; nothing else.
C14_ThreeResponses ==
  wh.provider # None =>
    /\ wh.status \in {200, 401, 500}
    /\ wh.status = 401 <=> SignatureRejected(wh)
    /\ wh.status = 500 <=> (~SignatureRejected(wh) /\ ProcessingThrows(wh))
    /\ wh.status = 200 =>
         /\ wh.processed
         /\ wh.eventId = wh.body.event_id
         /\ wh.processedAt # NoTime
    /\ wh.status # 200 => (wh.eventId = None /\ wh.processedAt = NoTime)

\* an event of a type the handler does not know was acknowledged
C14_Witness ==
  /\ wh.provider = "instacart"
  /\ wh.status = 200
  /\ wh.body.event = "unknown"
  /\ wh.eventId = "evt-2"


\* C21: a call whose first attempt is answered with 401 is re-issued exactly
\* once (after the token or assertion was renewed) before its failure or
\* success reaches the caller: the call ends after two attempts.
C21_OneReauthenticationOn401 ==
  (/\ rq.state = "done"
   /\ Len(rq.responses) >= 1
   /\ rq.responses[1].status = 401)
  => rq.attempts = 2


\* C22: every attempt of a place call carries one and the same idempotency
\* key, and a provider that deduplicates on the key holds at most one external
\* order for the call, also when it had carried out an attempt that timed out.
C22_OneKeyOneExternalOrder ==
  /\ \A i \in DOMAIN rq.keys : rq.keys[i] # None /\ rq.keys[i] = rq.keys[1]
  /\ Len(rq.created) <= 1


\* the record a call leaves when it runs alone on the record o
Applied(o, w) ==
  UpdatedOrder(o, writers[w].status, writers[w].externalOrderId,
               writers[w].externalProvider, writers[w].at)
\* both calls are through, on the same order, and both read the same record:
\* the second read came before the first write
Overlapped(v, w) ==
  /\ v # w
  /\ writers[v].pc = "done" /\ writers[w].pc = "done"
  /\ writers[v].orderId = writers[w].orderId
  /\ writers[v].order = writers[w].order

\* C23: two updateOrderStatus calls on one order whose reads and writes
\* interleave leave the record that running them one after the other, in one
\* of the two orders, leaves: no call's update is lost.
C23_InterleavedWritesSerializable ==
  \A v \in Writers, w \in Writers :
    Overlapped(v, w) =>
      \/ orderCache[writers[w].orderId] = Applied(Applied(writers[v].order, v), w)
      \/ orderCache[writers[w].orderId] = Applied(Applied(writers[v].order, w), v)


\* a call of g makes its cache read in this step
Reads(g) ==
  /\ getters[g].pc # "miss"
  /\ getters'[g].pc \in {"miss", "returned"}
  /\ getters'[g] # getters[g]
\* a call of g that missed comes back in this step
Builds(g) == getters[g].pc = "miss" /\ getters'[g].pc = "returned"

\* C24: a getUpsellCatalog call that finds the property's entry returns it and
\* builds and writes nothing; one that finds none builds the catalog, writes it
\* under the property's key with a TTL of 1800 seconds and returns it; the
\* entries of the other properties stay as they are.
C24_HitReturnsMissBuilds ==
  [][\A g \in Getters :
       LET p == getters'[g].propertyId
       IN  /\ Reads(g) =>
                /\ catalogCache' = catalogCache
                /\ builds' = builds
                /\ getters'[g].setex = NoSetex
                /\ IF catalogCache[p] # NoCatalog
                   THEN /\ getters'[g].pc = "returned"
                        /\ getters'[g].result = catalogCache[p]
                   ELSE getters'[g].pc = "miss"
           /\ Builds(g) =>
                /\ p = getters[g].propertyId
                /\ builds' = builds + 1
                /\ getters'[g].result = BuildCatalog(builds')
                /\ catalogCache'[p] = getters'[g].result
                /\ getters'[g].setex = [key |-> p, ttl |-> 1800]
                /\ \A q \in CatalogKeys \ {p} : catalogCache'[q] = catalogCache[q]]_vars

\* a call returned the entry of one property while another property has an
\* entry of its own, and a call returned from a build
C24_Witness ==
  /\ \E g \in Getters :
       /\ getters[g].pc = "returned" /\ getters[g].hit
       /\ \E q \in CatalogKeys \ {getters[g].propertyId} :
            catalogCache[q] # NoCatalog /\ catalogCache[q] # getters[g].result
  /\ \E g \in Getters : getters[g].pc = "returned" /\ ~getters[g].hit


\* the item ids of a catalog
Ids(catalog) == {catalog[i].id : i \in DOMAIN catalog}
\* the calls for property p that returned in p's current cache epoch
ReturnedFor(p) ==
  {g \in Getters : getters[g].pc = "returned" /\ getters[g].propertyId = p}

\* C25: the getUpsellCatalog calls for one property that return within one
\* cache epoch return the same item ids, overlapping calls on a miss included,
\* and createUpsellOrder for the property accepts each of these ids within
\* the epoch.
C25_OneCatalogPerEpoch ==
  \A p \in CatalogKeys :
    \A g \in ReturnedFor(p) :
      /\ \A h \in ReturnedFor(p) : Ids(getters[g].result) = Ids(getters[h].result)
      /\ \A id \in Ids(getters[g].result) :
           LineError(catalogCache[p], [upsellId |-> id, quantity |-> 1,
                                       metadata |-> [complete |-> TRUE, price |-> 0]])
             = None


\* C26: every ride request sent during dispatch carries a user token obtained
\* from getValidToken for that request.
C26_RideTokenChecked ==
  \A c \in Calls :
    \A k \in DOMAIN sent[c] :
      sent[c][k].endpoint = "uber/requests" => sent[c][k].userToken = FromGetValidToken


\* the margin before expiry within which the spec wants a token renewed, in
\* clock ticks
SafetyMargin == 2
\* a getValidToken call makes its cache check in this step
Checks == uber.call.pc # "refreshing" /\ uber'.call # uber.call

\* C27: getValidToken returns the user's cached token only when
\* now + safety_margin <= expiresAt; otherwise it calls the refresh endpoint,
\* and on its answer stores the new token under userId with
\* expiresAt = now + expires_in and returns it; other users' entries stay.
C27_RefreshWithinMargin ==
  [][/\ Checks =>
          LET cached == uber.tokenCache[uber'.call.userId]
          IN  /\ uber'.tokenCache = uber.tokenCache
              /\ IF cached # NoToken /\ now + SafetyMargin <= cached.expiresAt
                 THEN uber'.call.pc = "returned" /\ uber'.call.result = cached.token
                 ELSE uber'.call.pc = "refreshing"
     /\ (uber.call.pc = "refreshing" /\ uber'.call.pc = "returned") =>
          /\ uber'.call.result = uber'.tokenCache[uber.call.userId].token
          /\ uber'.call.result # uber.tokenCache[uber.call.userId].token
          /\ \E expires_in \in ExpiresIn :
               uber'.tokenCache[uber.call.userId].expiresAt = now + expires_in
          /\ \A u \in Users \ {uber.call.userId} :
               uber'.tokenCache[u] = uber.tokenCache[u]]_vars


\* C28: each attempt of a DoorDash call, retries included, carries an
\* assertion generated for it: iat is the second the attempt goes out and
\* exp = iat + 300; none is carried over from an earlier attempt or call.
C28_AssertionPerAttempt ==
  rq.client = "doordash" =>
    /\ Len(rq.jwts) = rq.attempts
    /\ \A i \in DOMAIN rq.jwts :
         /\ rq.jwts[i].iat = rq.sentAt[i]
         /\ rq.jwts[i].exp = rq.jwts[i].iat + 300

\* a DoorDash call was re-issued after a backoff, with a later assertion
C28_Witness ==
  /\ rq.client = "doordash"
  /\ rq.attempts = 2
  /\ rq.jwts[2].iat > rq.jwts[1].iat


\* a rateServiceRequest call is made in this step
Rates == svc'.call.op = "rate" /\ svc'.call # svc.call
\* the rating is a number from 1 to 5
InRange(rating) == rating.kind = "number" /\ rating.v >= 1 /\ rating.v <= 5

\* C29: rateServiceRequest stores the rating only for a request that exists,
\* is COMPLETED and gets a rating from 1 to 5; otherwise it fails with not
\* found, not completed or out of range, tested in this order, and the stored
\* request stays as it is.
C29_RatingOnlyWhenCompleted ==
  [][Rates =>
       LET id == svc'.call.id
           existing == svc.store[id]
           rating == svc'.call.rating
       IN  IF existing = NoServiceRequest
           THEN /\ svc'.call.result = "Service request not found"
                /\ svc'.store = svc.store
           ELSE IF existing.status # COMPLETED
           THEN /\ svc'.call.result = "Can only rate completed service requests"
                /\ svc'.store = svc.store
           ELSE IF ~InRange(rating)
           THEN /\ svc'.call.result = "Rating must be between 1 and 5"
                /\ svc'.store = svc.store
           ELSE /\ svc'.call.result = "ok"
                /\ svc'.store = [svc.store EXCEPT ![id] =
                     [existing EXCEPT !.guestRating = rating,
                                      !.guestFeedback = svc'.call.feedback,
                                      !.updatedAt = now]]]_vars


\* a createServiceRequest call is made in this step
Creates == svc'.call.op = "create" /\ svc'.call # svc.call

\* C30: createServiceRequest stores and returns a request in status PENDING
\* with createdAt = the time of the call and slaDeadline = createdAt plus
\* 1440 minutes for LOW, 240 for NORMAL, 60 for HIGH, 15 for URGENT.
C30_SlaDeadlineFromPriority ==
  [][Creates =>
       LET r == svc'.call.returned
       IN  /\ svc'.store[svc'.call.id] = r
           /\ r.status = PENDING
           /\ r.createdAt = now
           /\ r.priority = "low" => r.slaDeadline = r.createdAt + 1440
           /\ r.priority = "normal" => r.slaDeadline = r.createdAt + 240
           /\ r.priority = "high" => r.slaDeadline = r.createdAt + 60
           /\ r.priority = "urgent" => r.slaDeadline = r.createdAt + 15]_vars

\* an URGENT request created after the clock has moved, due 15 minutes later
C30_Witness ==
  \E id \in Requests :
    /\ svc.store[id].priority = "urgent"
    /\ svc.store[id].status = PENDING
    /\ svc.store[id].createdAt > 0
    /\ svc.store[id].slaDeadline = svc.store[id].createdAt + 15


\* C31: isOverdue answers true exactly when the time of the call is after
\* slaDeadline and the status is neither COMPLETED nor CANCELLED.
C31_OverdueIffLateAndOpen ==
  svc.call.op = "isOverdue" =>
    LET r == svc.call.returned
    IN  svc.call.overdue <=>
          (svc.call.at > r.slaDeadline /\ r.status \notin {COMPLETED, CANCELLED})

\* a completed request long past its deadline was found not overdue
C31_Witness ==
  /\ svc.call.op = "isOverdue"
  /\ svc.call.returned.status = COMPLETED
  /\ svc.call.at > svc.call.returned.slaDeadline + 1
  /\ ~svc.call.overdue


\* C32: every line of every persisted order has a quantity of at least 1, and
\* no persisted order has a negative totalAmount.
C32_QuantityAtLeastOne ==
  \A c \in Calls :
    orderCache[c] # NoOrder =>
      /\ \A i \in DOMAIN orderCache[c].items : orderCache[c].items[i].quantity >= 1
      /\ orderCache[c].totalAmount >= 0


\* the reference the provider of line i answers with when it accepts the line
LineReference(c, i) ==
  IF LineProvider(c, i) = "doordash"
  THEN "quote-" \o ExternalRef("doordash", c, i)
  ELSE ExternalRef(LineProvider(c, i), c, i)

\* C33: when createUpsellOrder returns, the persisted order is CONFIRMED with
\* the reference and provider of its last provider-bound line exactly when it
\* has a provider-bound line and the dispatch of the last one succeeded;
\* otherwise it is PENDING without externalOrderId.
C33_LastProviderLineDecides ==
  \A c \in Calls :
    pc[c] = "done" =>
      IF ProviderLines(c) # {} /\ LinePlaced(c, LastProviderLine(c))
      THEN /\ orderCache[c].status = CONFIRMED
           /\ orderCache[c].externalOrderId = LineReference(c, LastProviderLine(c))
           /\ orderCache[c].externalProvider = LineProvider(c, LastProviderLine(c))
      ELSE /\ orderCache[c].status = PENDING
           /\ orderCache[c].externalOrderId = None

\* returned: the first line was placed, the dispatch of the second, the last
\* provider-bound line, failed, and the order is PENDING without reference
C33_Witness ==
  \E c \in Calls :
    /\ pc[c] = "done"
    /\ ProviderLines(c) = {1, 2}
    /\ LinePlaced(c, 1)
    /\ ~LinePlaced(c, 2)
    /\ orderCache[c].status = PENDING
    /\ orderCache[c].externalOrderId = None


\* C34: the order createUpsellOrder returns agrees in status, externalOrderId
\* and externalProvider with the persisted order at the time of return.
C34_ReturnedAgreesWithPersisted ==
  \A c \in Calls :
    pc[c] = "done" =>
      /\ local[c].status = orderCache[c].status
      /\ local[c].externalOrderId = orderCache[c].externalOrderId
      /\ local[c].externalProvider = orderCache[c].externalProvider


\* C35: an updateOrderStatus call that passes no external reference and no
\* provider leaves the stored externalOrderId and externalProvider unchanged.
C35_OmittedReferenceKept ==
  [][(/\ NoCallUnderway
      /\ call' # call
      /\ call'.result = "ok"
      /\ call'.externalOrderId = None
      /\ call'.externalProvider = None)
     => /\ orderCache'[call'.orderId].externalOrderId
             = orderCache[call'.orderId].externalOrderId
        /\ orderCache'[call'.orderId].externalProvider
             = orderCache[call'.orderId].externalProvider]_vars


\* the terminal timestamp of the status is present
HasTerminalStamp(order) ==
  /\ order.status = COMPLETED => order.completedAt # NoTime
  /\ order.status = CANCELLED => order.cancelledAt # NoTime
  /\ order.status = REFUNDED  => order.refundedAt # NoTime

\* C36: a persisted order with status COMPLETED has completedAt set, one with
\* CANCELLED has cancelledAt set, one with REFUNDED has refundedAt set; the
\* order createUpsellOrder first persists has none of the three.
C36_TerminalStatusStamped ==
  /\ [](\A c \in Calls : orderCache[c] # NoOrder => HasTerminalStamp(orderCache[c]))
  /\ [][\A c \in Calls :
         (pc[c] = "validate" /\ pc'[c] = "dispatch")
           => /\ orderCache'[c].completedAt = NoTime
              /\ orderCache'[c].cancelledAt = NoTime
              /\ orderCache'[c].refundedAt = NoTime]_vars

\* an order was completed, then refunded: both stamps are set, the
\* cancellation stamp is not
C36_Witness ==
  \E c \in Calls :
    /\ orderCache[c] # NoOrder
    /\ orderCache[c].status = REFUNDED
    /\ orderCache[c].refundedAt # NoTime
    /\ orderCache[c].completedAt # NoTime
    /\ orderCache[c].completedAt < orderCache[c].refundedAt
    /\ orderCache[c].cancelledAt = NoTime


\* C37: after any sequence of create, update, assign and rate calls every
\* stored service request has slaDeadline = createdAt + the SLA minutes of
\* its current priority.
C37_SlaDeadlineFollowsPriority ==
  \A id \in Requests :
    svc.store[id] # NoServiceRequest =>
      svc.store[id].slaDeadline
        = svc.store[id].createdAt + GetSLAMinutes(svc.store[id].priority)


\* the quote call of line i that succeeded before request k
QuoteBefore(c, k) ==
  {j \in 1..(k - 1) : /\ sent[c][j].line = sent[c][k].line
                      /\ sent[c][j].endpoint = "doordash/quotes"
                      /\ sent[c][j].ok}

\* C38: a delivery request is sent only after the line's quote call
\* succeeded, and with that quote's external_delivery_id; after a failed
\* quote call no delivery request is sent for the line; a stored DoorDash
\* reference is the one of a successful createDelivery call.
C38_DeliveryFollowsQuote ==
  \A c \in Calls :
    /\ \A k \in DOMAIN sent[c] :
         /\ sent[c][k].endpoint = "doordash/deliveries"
              => \E j \in QuoteBefore(c, k) : sent[c][j].ref = sent[c][k].ref
         /\ (sent[c][k].endpoint = "doordash/quotes" /\ ~sent[c][k].ok)
              => CallsFor(c, sent[c][k].line, "doordash/deliveries") = {}
    /\ (/\ orderCache[c] # NoOrder
        /\ orderCache[c].externalProvider = "doordash"
        /\ orderCache[c].externalOrderId # None)
         => \E k \in DOMAIN sent[c] :
              /\ sent[c][k].endpoint = "doordash/deliveries"
              /\ sent[c][k].ok
              /\ sent[c][k].ref = orderCache[c].externalOrderId

\* returned: the quote of the first line failed and nothing more was sent for
\* it; the second line was quoted and delivered and its reference is stored
C38_Witness ==
  \E c \in Calls :
    /\ pc[c] = "done"
    /\ Len(sent[c]) = 3
    /\ sent[c][1].endpoint = "doordash/quotes" /\ ~sent[c][1].ok /\ sent[c][1].line = 1
    /\ sent[c][2].endpoint = "doordash/quotes" /\ sent[c][2].ok /\ sent[c][2].line = 2
    /\ sent[c][3].endpoint = "doordash/deliveries" /\ sent[c][3].ok
    /\ sent[c][3].ref = sent[c][2].ref
    /\ sent[c][3].ref # sent[c][1].ref
    /\ orderCache[c].externalOrderId = sent[c][3].ref
    /\ orderCache[c].externalProvider = "doordash"


\* C39: of the getValidToken calls for one user that overlap while the token
\* is missing or expired at most one sends a refresh request, and once they
\* have returned each has returned the token the cache holds.
C39_OneRefreshPerUser ==
  \A g \in TokenCallers : \A h \in uber.flights[g].with :
    /\ ~(uber.flights[g].refreshed /\ uber.flights[h].refreshed)
    /\ (uber.flights[g].pc = "returned" /\ uber.flights[h].pc = "returned")
         => uber.flights[g].result = uber.tokenCache[uber.flights[g].userId].token

====
